---- MODULE Spec2Model ----
(***************************************************************************)
(* Verification model of the RAG-Debugger derivation layer.                *)
(*                                                                         *)
(* Ten parts of the front end are modelled, each with its own              *)
(* specification over the shared variables:                                *)
(*   SpecResolver  - relAtLocal, the relation-matrix accessor of the       *)
(*                   question inspector;                                   *)
(*   SpecInspector - one render of the question inspector for a question   *)
(*                   (claim statuses, per-chunk claim sets, chunk status,  *)
(*                   usage status, filter flags, relationship label);      *)
(*   SpecMetric    - normalize / calcColor of the run overview and the     *)
(*                   goodness conversion of the metrics chart;             *)
(*   SpecRun       - the whole-run chunk analysis (aggregation by chunk,   *)
(*                   frequency ranking, entailment rates, duplicate        *)
(*                   groups) and the per-question chunk detail view;       *)
(*   SpecApp       - the application shell: loading runs, tabs, question   *)
(*                   selection and the memoized chunk tables;              *)
(*   SpecDerive    - the derivations run on a question record with         *)
(*                   optional fields missing;                              *)
(*   SpecEvidence  - the claim summary and the per-chunk evidence lists    *)
(*                   of the question inspector;                            *)
(*   SpecFilter    - the chunk filter pills of the question inspector;     *)
(*   SpecChat      - the assistant's chat sessions, streaming requests     *)
(*                   and abort controllers;                                *)
(*   SpecReader    - the assistant's event-stream reader.                  *)
(*                                                                         *)
(* JavaScript arrays are 0-based; the model keeps the 0-based indices of   *)
(* the code and reads a sequence s at JS index i as s[i + 1].              *)
(***************************************************************************)
EXTENDS Integers, Sequences, FiniteSets, TLC

VARIABLES
    \* relAtLocal call: arguments and returned value
    matrix, cc, clc, cIdx, clIdx, rel,
    \* question inspector: props and what one render derives from them
    question, rendered, gtClaimStatuses, respClaimStatuses, gtCounts, respCounts,
    chunkSummary, cards,
    \* run overview: one metric bar, its props and what its render derives
    val, lowerIsBetter, barRendered, norm, effective,
    \* the metric key of the bar or chart entry, the chart value the metrics chart
    \* derives for it, and the application log
    key, chartBuilt, dataPoint, log,
    \* chunk analysis: the questions of the run, the view state, what one render
    \* derives from them, and the question detail view of one question of the run
    run, analysed, showPercent, analysisMode, chunkMap, enhancedChunkData, duplicateGroups,
    lengthDistributionData, stats, frequencyChartData, chartData, inspected, detail,
    \* application shell: the loaded run, the active tab, the selected question, the
    \* number of runs loaded so far, the last user event, and the memoized tables and
    \* controls of the mounted chunk analysis
    selectedRun, activeTab, selectedQuestionId, loads, lastEvent, tableMemo, chartMemo,
    controls,
    \* per-question derivations over records that may lack fields: the question
    \* records, what the inspector derives for each, and what the metrics chart
    \* derives for all of them
    records, inspectorOut, chartOut,
    \* claims summary and per-chunk claim evidence of the inspector: the question
    \* shown, the claim sets listed for each of its chunks, and the summary counts
    shown, claimEvidence, claimSummary,
    \* chunk filter pills of the inspector: the question of the panel, the state of
    \* the six pills, and for each chunk card whether the render hides it
    panel, chunkFilters, hidden,
    \* assistant chat: the chat sessions, the session shown, the abort controllers
    \* registered per session, and the requests started so far
    sessions, currentSessionId, controllers, requests,
    \* event-stream reader of one request: the tokens the server sends, how many
    \* were read, the reader's buffer and done flag, whether its loop still runs,
    \* and the text accumulated into the streamed assistant message
    stream, readCount, buffer, done, reading, accumulated

resolverVars == <<matrix, cc, clc, cIdx, clIdx, rel>>
inspectorVars == <<question, rendered, gtClaimStatuses, respClaimStatuses, gtCounts,
                   respCounts, chunkSummary, cards>>
metricVars == <<val, lowerIsBetter, barRendered, norm, effective, key, chartBuilt, dataPoint, log>>
runVars == <<run, analysed, showPercent, analysisMode, chunkMap, enhancedChunkData, duplicateGroups,
             lengthDistributionData, stats, frequencyChartData, chartData, inspected,
             detail>>
appVars == <<selectedRun, activeTab, selectedQuestionId, loads, lastEvent, tableMemo,
             chartMemo, controls>>
\* the variables of the application shell and of the parts it mounts
deriveVars == <<records, inspectorOut, chartOut>>
evidenceVars == <<shown, claimEvidence, claimSummary>>
filterVars == <<panel, chunkFilters, hidden>>
chatVars == <<sessions, currentSessionId, controllers, requests>>
readerVars == <<stream, readCount, buffer, done, reading, accumulated>>
sessionVars == <<appVars, deriveVars, evidenceVars, filterVars, chatVars, readerVars>>
vars == <<resolverVars, inspectorVars, metricVars, runVars, sessionVars>>

----------------------------------------------------------------------------
(* Bounds of the model *)

\* rows of a matrix, cells of a row, chunk count and claim count of a resolver call
MaxDim == 2

\* retrieved chunks of an inspected question
MaxChunks == 1

\* claims of one claim set (ground truth or response) of an inspected question
MaxClaims == 2

\* how far, in hundredths, a raw metric value may lie below 0 or above 100
MaxExcess == 5000

\* chunk occurrences of an analysed run, over all its questions
MaxOccurrences == 3

\* questions of an analysed run
MaxQuestions == 2

\* largest value of a relation count field of a hand-made analysis record
MaxCount == 1

----------------------------------------------------------------------------
(* Values *)

\* the JavaScript value undefined (a missing cell, a missing row, a missing field)
Undefined == "undefined"

\* Sequences over S of length 0..n
SeqsUpTo(S, n) == UNION {[1..k -> S] : k \in 0..n}

\* arr[i] of JavaScript for an array arr: undefined outside the array
At(arr, i) == IF i >= 0 /\ i < Len(arr) THEN arr[i + 1] ELSE Undefined

\* Array.isArray(matrix[i]): every element of a relation matrix is an array
\* (types.ts), so the test fails exactly when i is outside the matrix
IsRow(m, i) == i >= 0 /\ i < Len(m)

----------------------------------------------------------------------------
(* relAtLocal: orientation-robust accessor *)

\* a resolver that only ever reads chunk-major, M[chunk][claim]
relAtLocal_ChunkMajorOnly(m, chunkIdx, claimIdx, chunkCount, claimCount) ==
    IF IsRow(m, chunkIdx) THEN At(m[chunkIdx + 1], claimIdx) ELSE Undefined

relAtLocal(m, chunkIdx, claimIdx, chunkCount, claimCount) ==
    LET outer == Len(m)
    IN  IF outer = chunkCount /\ IsRow(m, chunkIdx)
          THEN At(m[chunkIdx + 1], claimIdx)
        ELSE IF outer = claimCount /\ IsRow(m, claimIdx)
          THEN At(m[claimIdx + 1], chunkIdx)
        ELSE IF IsRow(m, 0) /\ Len(m[1]) = claimCount /\ IsRow(m, chunkIdx)
          THEN At(m[chunkIdx + 1], claimIdx)
        ELSE IF IsRow(m, 0) /\ Len(m[1]) = chunkCount /\ IsRow(m, claimIdx)
          THEN At(m[claimIdx + 1], chunkIdx)
        ELSE IF IsRow(m, chunkIdx) /\ Len(m[chunkIdx + 1]) > claimIdx
          THEN m[chunkIdx + 1][claimIdx + 1]
        ELSE IF IsRow(m, claimIdx) /\ Len(m[claimIdx + 1]) > chunkIdx
          THEN m[claimIdx + 1][chunkIdx + 1]
        ELSE Undefined

----------------------------------------------------------------------------
(* Resolver specification: relAtLocal applied to bounded matrices *)

\* rel before relAtLocal has been called
NotCalled == "not called"

\* two distinguishable relation strings are enough to tell which cell was read
ResolverCells == {"Entailment", "Neutral"}

\* every matrix of at most MaxDim rows, each row of at most MaxDim cells (ragged
\* and empty matrices included)
ResolverMatrices == SeqsUpTo(SeqsUpTo(ResolverCells, MaxDim), MaxDim)

ResolverIdle ==
    /\ matrix = <<>> /\ cc = 0 /\ clc = 0 /\ cIdx = 0 /\ clIdx = 0 /\ rel = NotCalled

InspectorIdle ==
    /\ question = Undefined /\ rendered = FALSE
    /\ gtClaimStatuses = <<>> /\ respClaimStatuses = <<>>
    /\ gtCounts = Undefined /\ respCounts = Undefined
    /\ chunkSummary = Undefined /\ cards = <<>>

MetricIdle ==
    /\ val = 0 /\ lowerIsBetter = FALSE /\ barRendered = FALSE /\ norm = 0 /\ effective = 0
    /\ key = Undefined /\ chartBuilt = FALSE /\ dataPoint = 0 /\ log = <<>>

\* the value of a state slot that holds nothing (null)
Null == "null"

\* no run loaded / no memoized value
NoRun == [absent |-> TRUE]
NoMemo == [absent |-> TRUE]

DefaultControls == [showPercent |-> FALSE, analysisMode |-> "retrieved2answer"]
NoEvent == [kind |-> "none", id |-> Null]

AppIdle ==
    /\ selectedRun = NoRun /\ activeTab = "overview" /\ selectedQuestionId = Null
    /\ loads = 0 /\ lastEvent = NoEvent
    /\ tableMemo = NoMemo /\ chartMemo = NoMemo /\ controls = DefaultControls

\* a derivation that has not run
Pending == [pending |-> TRUE]

DeriveIdle == records = <<>> /\ inspectorOut = <<>> /\ chartOut = Pending

EvidenceIdle == shown = Pending /\ claimEvidence = <<>> /\ claimSummary = Pending

\* useState of chunkFilters: every pill active
AllFiltersOn ==
    [relevant |-> TRUE, irrelevant |-> TRUE, harming |-> TRUE,
     grounded |-> TRUE, unused |-> TRUE, contradicting |-> TRUE]

FilterIdle == panel = Pending /\ chunkFilters = AllFiltersOn /\ hidden = <<>>

\* chat sessions of the assistant
MaxSessions == 2

\* requests the assistant starts
MaxRequests == 3

\* useState of sessions / currentSessionId and the empty controllersRef map
\* (0 stands for no controller registered)
ChatIdle ==
    /\ sessions = <<[isStreaming |-> FALSE, notices |-> 0]>> /\ currentSessionId = 1
    /\ controllers = [s \in 1..MaxSessions |-> 0] /\ requests = <<>>

ReaderIdle ==
    /\ stream = <<>> /\ readCount = 0 /\ buffer = <<>> /\ done = FALSE
    /\ reading = FALSE /\ accumulated = <<>>

SessionIdle ==
    AppIdle /\ DeriveIdle /\ EvidenceIdle /\ FilterIdle /\ ChatIdle /\ ReaderIdle

RunIdle ==
    /\ run = <<>> /\ analysed = FALSE /\ showPercent = FALSE
    /\ analysisMode = "retrieved2answer"
    /\ chunkMap = <<>> /\ enhancedChunkData = <<>> /\ duplicateGroups = <<>>
    /\ lengthDistributionData = <<>> /\ stats = Undefined
    /\ frequencyChartData = <<>> /\ chartData = <<>>
    /\ inspected = 0 /\ detail = <<>>

InitResolver ==
    /\ matrix \in ResolverMatrices
    /\ cc \in 0..MaxDim
    /\ clc \in 0..MaxDim
    /\ cIdx = 0 /\ clIdx = 0 /\ rel = NotCalled
    /\ InspectorIdle /\ MetricIdle /\ RunIdle /\ SessionIdle

\* one call relAtLocal(matrix, chunkIndex, i, chunkCount, claims.length); the call
\* sites pass chunkIndex < chunkCount and i < claims.length
Resolve ==
    /\ \E c \in 0..(cc - 1), k \in 0..(clc - 1) :
          /\ cIdx' = c
          /\ clIdx' = k
          /\ rel' = relAtLocal(matrix, c, k, cc, clc)
    /\ UNCHANGED <<matrix, cc, clc, inspectorVars, metricVars, runVars, sessionVars>>

NextResolver == Resolve

SpecResolver == InitResolver /\ [][NextResolver]_vars

\* every row has n cells
Rectangular(m, n) == \A i \in 1..Len(m) : Len(m[i]) = n

\* m is a rows x cols matrix
HasShape(m, rows, cols) == Len(m) = rows /\ Rectangular(m, cols)

\* the transpose of a rows x cols matrix
Transpose(m, rows, cols) == [j \in 1..cols |-> [i \in 1..rows |-> m[i][j]]]

\* m[i][j] is inside the matrix (0-based)
InBounds(m, i, j) == IsRow(m, i) /\ j >= 0 /\ j < Len(m[i + 1])

\* C1 (as stated): for a rectangular matrix, the resolver returns the cell chosen
\* by (a) outer = C and inner = K: M[chunk][claim]; (b) else outer = K and inner = C:
\* M[claim][chunk]; (c) else M[chunk][claim] if in bounds; (d) else M[claim][chunk]
\* if in bounds; (e) else unknown.
C1_SpecOrder ==
    (rel # NotCalled /\ \E n \in 0..(MaxDim + 1) : Rectangular(matrix, n)) =>
        LET outer == Len(matrix)
            inner == IF outer > 0 THEN Len(matrix[1]) ELSE -1
        IN  rel = IF outer = cc /\ inner = clc THEN matrix[cIdx + 1][clIdx + 1]
                  ELSE IF outer = clc /\ inner = cc THEN matrix[clIdx + 1][cIdx + 1]
                  ELSE IF InBounds(matrix, cIdx, clIdx) THEN matrix[cIdx + 1][clIdx + 1]
                  ELSE IF InBounds(matrix, clIdx, cIdx) THEN matrix[clIdx + 1][cIdx + 1]
                  ELSE Undefined

\* C1 (amended): the resolver decides the orientation from the outer length first,
\* then from the first row's length, and only then tries the two reads in bounds:
\* (a) outer = C: M[chunk][claim], unknown when that row is too short;
\* (b) else outer = K: M[claim][chunk], unknown when that row is too short;
\* (c) else the first row has K cells and row chunk exists: M[chunk][claim];
\* (d) else the first row has C cells and row claim exists: M[claim][chunk];
\* (e) else M[chunk][claim] if in bounds; (f) else M[claim][chunk] if in bounds;
\* (g) else unknown.
C1_CodeOrder ==
    rel # NotCalled =>
        LET outer == Len(matrix)
            first == IF outer > 0 THEN Len(matrix[1]) ELSE -1
            direct == IF InBounds(matrix, cIdx, clIdx)
                        THEN matrix[cIdx + 1][clIdx + 1] ELSE Undefined
            swapped == IF InBounds(matrix, clIdx, cIdx)
                         THEN matrix[clIdx + 1][cIdx + 1] ELSE Undefined
            a == outer = cc
            b == ~a /\ outer = clc
            c == ~a /\ ~b /\ first = clc /\ cIdx < outer
            d == ~a /\ ~b /\ ~c /\ first = cc /\ clIdx < outer
            e == ~a /\ ~b /\ ~c /\ ~d /\ InBounds(matrix, cIdx, clIdx)
            f == ~a /\ ~b /\ ~c /\ ~d /\ ~e /\ InBounds(matrix, clIdx, cIdx)
        IN  /\ (a \/ c \/ e) => rel = direct
            /\ (b \/ d \/ f) => rel = swapped
            /\ ~(a \/ b \/ c \/ d \/ e \/ f) => rel = Undefined

\* a call on a 2 x 1 matrix with C = K = 2 at (chunk 0, claim 1): the outer length
\* settles chunk-major and the short row makes the cell unknown
C1_Witness ==
    /\ rel = Undefined
    /\ Len(matrix) = cc /\ cc = clc /\ cc = 2
    /\ Rectangular(matrix, 1)
    /\ cIdx = 0 /\ clIdx = 1

\* C2 (as stated): for every C x K matrix, C = K included, resolving a cell against
\* the matrix and against its transpose gives the same relation.
C2_TransposeInvariantAll ==
    (rel # NotCalled /\ HasShape(matrix, cc, clc)) =>
        rel = relAtLocal(Transpose(matrix, cc, clc), cIdx, clIdx, cc, clc)

\* C2 (amended): for every C x K matrix with C # K, resolving a cell against the
\* matrix and against its transpose gives the same relation.
C2_TransposeInvariant ==
    (rel # NotCalled /\ HasShape(matrix, cc, clc) /\ cc # clc) =>
        rel = relAtLocal(Transpose(matrix, cc, clc), cIdx, clIdx, cc, clc)

\* a non-square matrix that is not constant, resolved at a cell holding Entailment
C2_Witness ==
    /\ rel = "Entailment"
    /\ HasShape(matrix, cc, clc) /\ cc # clc
    /\ \E i \in 1..cc, j \in 1..clc : matrix[i][j] = "Neutral"

----------------------------------------------------------------------------
(* Question inspector: claim statuses *)

\* String.prototype.toLowerCase on the relation strings of the model
ToLowerCase(s) ==
    CASE s = "Entailment" -> "entailment"
      [] s = "Contradiction" -> "contradiction"
      [] s = "CONTRADICTION" -> "contradiction"
      [] s = "Neutral" -> "neutral"
      [] s = "Unknown" -> "unknown"
      [] OTHER -> s

\* String(rel ?? '')
StringOrEmpty(r) == IF r = Undefined THEN "" ELSE r

\* a status mapping that compares the relation string exactly
mapRelToStatus_CaseSensitive(r) ==
    LET s == StringOrEmpty(r)
    IN  IF s = "Entailment" THEN "entailed"
        ELSE IF s = "Contradiction" THEN "contradiction"
        ELSE "neutral"

mapRelToStatus(r) ==
    LET s == ToLowerCase(StringOrEmpty(r))
    IN  IF s = "entailment" THEN "entailed"
        ELSE IF s = "contradiction" THEN "contradiction"
        ELSE "neutral"

\* An entry of a direct relation array is either a plain value,
\* [isArray |-> FALSE, value |-> v], or itself an array, [isArray |-> TRUE,
\* items |-> <<...>>].  A direct relation field of the question is
\* [present |-> BOOLEAN, arr |-> entries]: Array.isArray(relations) is its present flag.
Plain(v) == [isArray |-> FALSE, value |-> v]
Wrapped(items) == [isArray |-> TRUE, items |-> items]

mapDirectStatuses(relations, targetLen) ==
    LET arr == IF relations.present THEN relations.arr ELSE <<>>
    IN  [i \in 1..targetLen |->
            LET raw == IF i <= Len(arr) THEN arr[i] ELSE Plain(Undefined)
                r == IF raw.isArray THEN At(raw.items, 0) ELSE raw.value
            IN  mapRelToStatus(r)]

\* gtCounts / respCounts
StatusCounts(statuses) ==
    [st \in {"entailed", "neutral", "contradiction"} |->
        Cardinality({i \in 1..Len(statuses) : statuses[i] = st})]

----------------------------------------------------------------------------
(* Question inspector: per-chunk claim sets and statuses *)

EmptySets == [entailments |-> <<>>, contradictions |-> <<>>, neutrals |-> <<>>]

\* a bucketing that files every missing or unrecognised relation under neutrals
pushByRel_UnknownAsNeutral(target, r, claim) ==
    IF r = "Entailment" THEN [target EXCEPT !.entailments = Append(@, claim)]
    ELSE IF r = "Contradiction" THEN [target EXCEPT !.contradictions = Append(@, claim)]
    ELSE [target EXCEPT !.neutrals = Append(@, claim)]

\* extractClaims keeps only non-blank strings, so !claim is never true here
pushByRel(target, r, claim) ==
    IF r = Undefined THEN target
    ELSE IF r = "Entailment" THEN [target EXCEPT !.entailments = Append(@, claim)]
    ELSE IF r = "Contradiction" THEN [target EXCEPT !.contradictions = Append(@, claim)]
    ELSE IF r = "Neutral" THEN [target EXCEPT !.neutrals = Append(@, claim)]
    ELSE target

\* the loop for (i = from; i < claims.length; i++) pushByRel(target, relAtLocal(...), claims[i])
RECURSIVE PushClaims(_, _, _, _, _, _)
PushClaims(target, m, chunkIndex, chunkCount, claims, from) ==
    IF from >= Len(claims) THEN target
    ELSE PushClaims(
            pushByRel(target,
                      relAtLocal(m, chunkIndex, from, chunkCount, Len(claims)),
                      claims[from + 1]),
            m, chunkIndex, chunkCount, claims, from + 1)

getClaimSetsForChunk(q, chunkIndex) ==
    LET chunkCount == Len(q.retrieved_context)
    IN  [gt |-> PushClaims(EmptySets, q.retrieved2answer, chunkIndex, chunkCount,
                           q.gt_answer_claims, 0),
         response |-> PushClaims(EmptySets, q.retrieved2response, chunkIndex, chunkCount,
                                 q.response_claims, 0)]

\* a chunk status that lets entailment win over contradiction
chunkStatusForSets_EntailmentFirst(sets) ==
    IF Len(sets.gt.entailments) > 0 THEN "relevant"
    ELSE IF Len(sets.gt.contradictions) > 0 THEN "harming"
    ELSE "irrelevant"

chunkStatusForSets(sets) ==
    LET ent == Len(sets.gt.entailments)
        con == Len(sets.gt.contradictions)
    IN  IF con > 0 THEN "harming"
        ELSE IF ent > 0 THEN "relevant"
        ELSE "irrelevant"

\* a usage status that lets entailment win over contradiction
usageStatusForSets_EntailmentFirst(sets) ==
    IF Len(sets.response.entailments) > 0 THEN "grounded"
    ELSE IF Len(sets.response.contradictions) > 0 THEN "contradicting"
    ELSE "unused"

usageStatusForSets(sets) ==
    LET ent == Len(sets.response.entailments)
        con == Len(sets.response.contradictions)
    IN  IF con > 0 THEN "contradicting"
        ELSE IF ent > 0 THEN "grounded"
        ELSE "unused"

\* utils/relevance: a chunk is irrelevant when it neither entails nor contradicts
\* a ground-truth claim
isIrrelevantFromSets(sets) ==
    Len(sets.gt.entailments) = 0 /\ Len(sets.gt.contradictions) = 0

\* the filter flags of a chunk card
ChunkFlags(sets, status) ==
    [relevant |-> status = "relevant",
     irrelevant |-> status = "irrelevant",
     harming |-> status = "harming",
     grounded |-> Len(sets.response.entailments) > 0,
     unused |-> Len(sets.response.entailments) = 0,
     contradicting |-> Len(sets.response.contradictions) > 0]

Meta(l, c) == [label |-> l, color |-> c]

\* a lookup table without its harming row
metaMap_NoHarmingRow(status, us) ==
    CASE status = "relevant" /\ us = "grounded" -> Meta("Good evidence used", "green")
      [] status = "relevant" /\ us = "unused" -> Meta("Missed opportunity", "red")
      [] status = "relevant" /\ us = "contradicting" -> Meta("Misuse of good evidence", "red")
      [] status = "irrelevant" /\ us = "grounded" -> Meta("Misgrounded use", "red")
      [] status = "irrelevant" /\ us = "unused" -> Meta("Benign noise", "gray")
      [] status = "irrelevant" /\ us = "contradicting" -> Meta("Distracting conflict", "red")
      [] OTHER -> Meta(Undefined, Undefined)

\* metaMap[status][us]; a pair the table lacks reads as undefined
metaMap(status, us) ==
    CASE status = "relevant" /\ us = "grounded" -> Meta("Good evidence used", "green")
      [] status = "relevant" /\ us = "unused" -> Meta("Missed opportunity", "red")
      [] status = "relevant" /\ us = "contradicting" -> Meta("Misuse of good evidence", "red")
      [] status = "irrelevant" /\ us = "grounded" -> Meta("Misgrounded use", "red")
      [] status = "irrelevant" /\ us = "unused" -> Meta("Benign noise", "gray")
      [] status = "irrelevant" /\ us = "contradicting" -> Meta("Distracting conflict", "red")
      [] status = "harming" /\ us = "grounded" -> Meta("Actively harmful grounding", "red")
      [] status = "harming" /\ us = "unused" -> Meta("Dodged a bullet", "green")
      [] status = "harming" /\ us = "contradicting" -> Meta("Conflicted evidence", "gray")
      [] OTHER -> Meta(Undefined, Undefined)

\* one chunk card of the retrieved-chunks panel
ChunkCard(q, index) ==
    LET sets == getClaimSetsForChunk(q, index)
        status == chunkStatusForSets(sets)
        us == usageStatusForSets(sets)
    IN  [sets |-> sets,
         status |-> status,
         flags |-> ChunkFlags(sets, status),
         us |-> us,
         meta |-> metaMap(status, us)]

\* the pill counts of the chunk summary row
ChunkSummaryCounts(q) ==
    LET n == Len(q.retrieved_context)
        setsOf == [i \in 0..(n - 1) |-> getClaimSetsForChunk(q, i)]
    IN  [rel |-> Cardinality({i \in 0..(n - 1) : Len(setsOf[i].gt.entailments) > 0}),
         irr |-> Cardinality({i \in 0..(n - 1) : isIrrelevantFromSets(setsOf[i])}),
         harm |-> Cardinality({i \in 0..(n - 1) : Len(setsOf[i].gt.contradictions) > 0}),
         grounded |->
            Cardinality({i \in 0..(n - 1) : Len(setsOf[i].response.entailments) > 0}),
         unused |->
            Cardinality({i \in 0..(n - 1) : Len(setsOf[i].response.entailments) = 0}),
         respContr |->
            Cardinality({i \in 0..(n - 1) : Len(setsOf[i].response.contradictions) > 0})]

\* gtClaimStatuses with a fallback to chunk aggregation when the direct array is absent
gtClaimStatusesOf_ChunkFallback(q) ==
    IF q.response2answer.present
      THEN mapDirectStatuses(q.response2answer, Len(q.gt_answer_claims))
      ELSE [i \in 1..Len(q.gt_answer_claims) |->
              LET n == Len(q.retrieved_context)
                  r(j) == relAtLocal(q.retrieved2answer, j, i - 1, n, Len(q.gt_answer_claims))
              IN  IF \E j \in 0..(n - 1) : r(j) = "Contradiction" THEN "contradiction"
                  ELSE IF \E j \in 0..(n - 1) : r(j) = "Entailment" THEN "entailed"
                  ELSE "neutral"]

gtClaimStatusesOf(q) == mapDirectStatuses(q.response2answer, Len(q.gt_answer_claims))

respClaimStatusesOf(q) == mapDirectStatuses(q.answer2response, Len(q.response_claims))

----------------------------------------------------------------------------
(* Inspector specification: one question, rendered *)

\* relation strings of a chunk-to-claim matrix cell: the three literals and one
\* string that is none of them
InspectorCells == {"Entailment", "Contradiction", "Neutral", "entailment"}

\* relation values of a direct per-claim array: the literals, case variants, an
\* unrelated string, and null/undefined
DirectValues == {"Entailment", "Contradiction", "Neutral", "entailment", "CONTRADICTION",
                 "Unknown", Undefined}

DirectEntries ==
    {Plain(v) : v \in DirectValues}
        \cup {Wrapped(<<>>), Wrapped(<<"Entailment">>), Wrapped(<<"Contradiction">>)}

Absent == [present |-> FALSE, arr |-> <<>>]

DirectFields ==
    {Absent} \cup {[present |-> TRUE, arr |-> a] : a \in SeqsUpTo(DirectEntries, MaxClaims)}

\* the i-th claim text of a claim set; extractClaims returns non-blank strings
ClaimTexts(side, n) == [i \in 1..n |-> <<side, i>>]

Chunks(n) == [i \in 1..n |-> <<"doc", i>>]

\* the last cell of the last row is missing
DropLastCell(m) ==
    [i \in 1..Len(m) |-> IF i = Len(m) THEN SubSeq(m[i], 1, Len(m[i]) - 1) ELSE m[i]]

\* matrices for c chunks and k claims: every chunk-major c x k matrix, every
\* claim-major k x c matrix, every chunk-major matrix with a missing last cell,
\* and the empty matrix of a missing field
ShapedMatrices(c, k) ==
    LET chunkMajor == [1..c -> [1..k -> InspectorCells]]
        claimMajor == [1..k -> [1..c -> InspectorCells]]
    IN  chunkMajor \cup claimMajor \cup {<<>>}
            \cup {DropLastCell(m) : m \in {x \in chunkMajor : c > 0 /\ k > 0}}

\* chunk-major c x k matrices holding one relation everywhere
UniformMatrices(c, k) == {[i \in 1..c |-> [j \in 1..k |-> v]] : v \in InspectorCells}

MakeQuestion(c, gtK, r2a, resp2ans, respK, r2r, ans2resp) ==
    [retrieved_context |-> Chunks(c),
     gt_answer_claims |-> ClaimTexts("gt", gtK),
     response_claims |-> ClaimTexts("resp", respK),
     retrieved2answer |-> r2a,
     retrieved2response |-> r2r,
     response2answer |-> resp2ans,
     answer2response |-> ans2resp]

\* The inspected question is drawn from four families; each lets one input of the
\* render range over all its values while the others take a few:
\*  - retrieved2answer ranges over every shaped matrix;
\*  - retrieved2response ranges over every shaped matrix;
\*  - response2answer ranges over every direct field;
\*  - answer2response ranges over every direct field.
InitInspector ==
    /\ \E c \in 0..MaxChunks, k \in 0..MaxClaims :
          \/ \E r2a \in ShapedMatrices(c, k), r2r \in UniformMatrices(c, 1) :
                question = MakeQuestion(c, k, r2a, Absent, 1, r2r, Absent)
          \/ \E r2a \in UniformMatrices(c, 1), r2r \in ShapedMatrices(c, k) :
                question = MakeQuestion(c, 1, r2a, Absent, k, r2r, Absent)
          \/ \E r2a \in UniformMatrices(c, k), d \in DirectFields :
                question = MakeQuestion(c, k, r2a, d, 0, <<>>, Absent)
          \/ \E r2r \in UniformMatrices(c, k), d \in DirectFields :
                question = MakeQuestion(c, 0, <<>>, Absent, k, r2r, d)
    /\ rendered = FALSE
    /\ gtClaimStatuses = <<>> /\ respClaimStatuses = <<>>
    /\ gtCounts = Undefined /\ respCounts = Undefined
    /\ chunkSummary = Undefined /\ cards = <<>>
    /\ ResolverIdle /\ MetricIdle /\ RunIdle /\ SessionIdle

\* one render of QuestionInspector for the question in its props
Render ==
    /\ rendered' = TRUE
    /\ gtClaimStatuses' = gtClaimStatusesOf(question)
    /\ respClaimStatuses' = respClaimStatusesOf(question)
    /\ gtCounts' = StatusCounts(gtClaimStatusesOf(question))
    /\ respCounts' = StatusCounts(respClaimStatusesOf(question))
    /\ chunkSummary' = ChunkSummaryCounts(question)
    /\ cards' = [i \in 1..Len(question.retrieved_context) |-> ChunkCard(question, i - 1)]
    /\ UNCHANGED <<question, resolverVars, metricVars, runVars, sessionVars>>

NextInspector == Render

SpecInspector == InitInspector /\ [][NextInspector]_vars

----------------------------------------------------------------------------
(* Claims about the question inspector *)

NumChunks == Len(question.retrieved_context)
NumGtClaims == Len(question.gt_answer_claims)
NumRespClaims == Len(question.response_claims)

\* the relation the resolver gives chunk j (0-based) and GT claim i (0-based)
GtRel(j, i) == relAtLocal(question.retrieved2answer, j, i, NumChunks, NumGtClaims)

\* the relation the resolver gives chunk j (0-based) and response claim i (0-based)
RespRel(j, i) == relAtLocal(question.retrieved2response, j, i, NumChunks, NumRespClaims)

ContradictsGt(j) == \E i \in 0..(NumGtClaims - 1) : GtRel(j, i) = "Contradiction"
EntailsGt(j) == \E i \in 0..(NumGtClaims - 1) : GtRel(j, i) = "Entailment"
ContradictsResp(j) == \E i \in 0..(NumRespClaims - 1) : RespRel(j, i) = "Contradiction"
EntailsResp(j) == \E i \in 0..(NumRespClaims - 1) : RespRel(j, i) = "Entailment"

\* C3: the input quality of every chunk is harming if the chunk contradicts at least
\* one GT claim, otherwise relevant if it entails at least one, otherwise irrelevant.
C3_InputQuality ==
    rendered =>
        \A j \in 0..(NumChunks - 1) :
            cards[j + 1].status = IF ContradictsGt(j) THEN "harming"
                                  ELSE IF EntailsGt(j) THEN "relevant"
                                  ELSE "irrelevant"

\* a chunk that entails one GT claim and contradicts another is shown as harming
C3_Witness ==
    /\ rendered
    /\ \E j \in 0..(NumChunks - 1) :
          ContradictsGt(j) /\ EntailsGt(j) /\ cards[j + 1].status = "harming"

\* C4: the usage status of every chunk is contradicting if the chunk contradicts at
\* least one response claim, otherwise grounded if it entails at least one, otherwise
\* unused.
C4_UsageStatus ==
    rendered =>
        \A j \in 0..(NumChunks - 1) :
            cards[j + 1].us = IF ContradictsResp(j) THEN "contradicting"
                              ELSE IF EntailsResp(j) THEN "grounded"
                              ELSE "unused"

\* a chunk that entails one response claim and contradicts another is shown as
\* contradicting
C4_Witness ==
    /\ rendered
    /\ \E j \in 0..(NumChunks - 1) :
          ContradictsResp(j) /\ EntailsResp(j) /\ cards[j + 1].us = "contradicting"

ExactlyOne(flags, names) == Cardinality({f \in names : flags[f]}) = 1

\* C5: every chunk card carries exactly one of the flags relevant, irrelevant,
\* harming and exactly one of the flags grounded, unused, contradicting.
C5_FlagsExclusive ==
    rendered =>
        \A j \in 1..NumChunks :
            /\ ExactlyOne(cards[j].flags, {"relevant", "irrelevant", "harming"})
            /\ ExactlyOne(cards[j].flags, {"grounded", "unused", "contradicting"})

\* C6: every chunk card gets a label and a colour from the (status, usage) lookup;
\* (relevant, unused) is "Missed opportunity" in red, (harming, unused) is
\* "Dodged a bullet" in green, (irrelevant, grounded) is "Misgrounded use" in red.
C6_MetaTotal ==
    rendered =>
        \A j \in 1..NumChunks :
            LET card == cards[j]
            IN  /\ card.meta.label # Undefined
                /\ card.meta.color \in {"green", "gray", "red"}
                /\ (card.status = "relevant" /\ card.us = "unused") =>
                        card.meta = Meta("Missed opportunity", "red")
                /\ (card.status = "harming" /\ card.us = "unused") =>
                        card.meta = Meta("Dodged a bullet", "green")
                /\ (card.status = "irrelevant" /\ card.us = "grounded") =>
                        card.meta = Meta("Misgrounded use", "red")

\* a harming chunk the generator did not use
C6_Witness ==
    /\ rendered
    /\ \E j \in 1..NumChunks :
          /\ cards[j].status = "harming" /\ cards[j].us = "unused"
          /\ cards[j].meta.label = "Dodged a bullet"

\* the value a direct entry stands for: itself, or its first element when it is
\* an array
EntryValue(e) == IF e.isArray THEN (IF Len(e.items) > 0 THEN e.items[1] ELSE Undefined)
                 ELSE e.value

\* the i-th (1-based) entry of a direct field, Plain(Undefined) when it is missing
EntryAt(field, i) == IF i <= Len(field.arr) THEN field.arr[i] ELSE Plain(Undefined)

\* the status of an entry read verbatim: only the plain literal strings count
VerbatimStatus(e) ==
    IF ~e.isArray /\ e.value = "Entailment" THEN "entailed"
    ELSE IF ~e.isArray /\ e.value = "Contradiction" THEN "contradiction"
    ELSE "neutral"

\* the status of an entry read leniently: first element of an array, any letter case
LenientStatus(e) ==
    IF EntryValue(e) \in {"Entailment", "entailment", "ENTAILMENT"} THEN "entailed"
    ELSE IF EntryValue(e) \in {"Contradiction", "contradiction", "CONTRADICTION"}
      THEN "contradiction"
    ELSE "neutral"

Aggregated(m, n, i) ==
    LET r(j) == relAtLocal(m, j, i, NumChunks, n)
    IN  IF \E j \in 0..(NumChunks - 1) : r(j) = "Contradiction" THEN "contradiction"
        ELSE IF \E j \in 0..(NumChunks - 1) : r(j) = "Entailment" THEN "entailed"
        ELSE "neutral"

RECURSIVE ClaimsWith(_, _, _, _, _)
ClaimsWith(m, claims, j, r, from) ==
    IF from >= Len(claims) THEN <<>>
    ELSE (IF relAtLocal(m, j, from, NumChunks, Len(claims)) = r
            THEN <<claims[from + 1]>> ELSE <<>>)
            \o ClaimsWith(m, claims, j, r, from + 1)

BucketSizes(b) == Len(b.entailments) + Len(b.contradictions) + Len(b.neutrals)

----------------------------------------------------------------------------
(* Run overview: metric normalisation *)

\* Fixed point: a raw metric value is held in hundredths (0.42 is 42, 84 is 8400)
\* and a normalised value in ten-thousandths (0.84 is 8400), so that the division
\* of a raw value by 100 is exact.
Hundredths(n) == n * 100
RawToNorm(h) == h * 100
OneNorm == RawToNorm(Hundredths(1))

Min(a, b) == IF a < b THEN a ELSE b
Max(a, b) == IF a > b THEN a ELSE b

\* a normalisation that divides by 100 without the upper clamp
normalize_NoUpperClamp(v) ==
    IF v > Hundredths(1) THEN v
    ELSE Max(0, Min(RawToNorm(v), OneNorm))

\* v is the raw value in hundredths; v / 100 in ten-thousandths is the number v
normalize(v) ==
    IF v > Hundredths(1) THEN Min(v, OneNorm)
    ELSE Max(0, Min(RawToNorm(v), OneNorm))

\* an effective value that ignores lowerIsBetter
calcColorEffective_NeverInverted(v, lower) == normalize(v)

\* the effective value calcColor turns into a hue
calcColorEffective(v, lower) ==
    LET n == normalize(v)
    IN  IF lower THEN OneNorm - n ELSE n

\* the metrics the run overview shows, by section
OverviewKeys ==
    {"precision", "recall", "f1", "claim_recall", "context_precision",
     "context_utilization", "noise_sensitivity_in_relevant",
     "noise_sensitivity_in_irrelevant", "hallucination", "self_knowledge",
     "faithfulness"}

\* the entries of the sections that carry lowerIsBetter: true
LowerIsBetterKeys ==
    {"noise_sensitivity_in_relevant", "noise_sensitivity_in_irrelevant", "hallucination"}

\* m.lowerIsBetter of the section entry with key k (undefined reads as false)
LowerIsBetterOf(k) == k \in LowerIsBetterKeys

\* the keys of a question's metrics mapping: any string, here the known metrics
\* and one the application has no entry for
ChartKeys == OverviewKeys \cup {"latency_ms"}

\* log entries
LogEntry(level, message) == [level |-> level, message |-> message]

OutOfRange(v) == v < 0 \/ v > Hundredths(100)

\* convertToGoodness(value, key) of utils/metrics: the normalised value, inverted
\* for the metrics where lower is better
convertToGoodness(v, k) ==
    IF k \in LowerIsBetterKeys THEN OneNorm - normalize(v) ELSE normalize(v)

\* what utils/metrics logs when it normalises v
convertToGoodnessLog(v) ==
    IF OutOfRange(v) THEN <<LogEntry("WARNING", "metric value out of range")>> ELSE <<>>

RawValues == (0 - MaxExcess)..(Hundredths(100) + MaxExcess)

\* raw values at and around the borders of the normalisation rule
BorderValues ==
    {0 - 1, 0, 10, 90, Hundredths(1), Hundredths(1) + 1, Hundredths(57),
     Hundredths(100), Hundredths(100) + 1, Hundredths(142)}

InitMetric ==
    /\ \/ val \in RawValues /\ key \in {"f1", "hallucination"}
       \/ val \in BorderValues /\ key \in ChartKeys
    /\ lowerIsBetter = LowerIsBetterOf(key)
    /\ barRendered = FALSE /\ norm = 0 /\ effective = 0
    /\ chartBuilt = FALSE /\ dataPoint = 0 /\ log = <<>>
    /\ ResolverIdle /\ InspectorIdle /\ RunIdle /\ SessionIdle

\* the run overview mounts and renders the MetricBar of a metric of its sections
RenderMetricBar ==
    /\ ~barRendered
    /\ key \in OverviewKeys
    /\ barRendered' = TRUE
    /\ norm' = normalize(val)
    /\ effective' = calcColorEffective(val, lowerIsBetter)
    /\ log' = Append(log, LogEntry("INFO", "RunOverview rendered successfully"))
    /\ UNCHANGED <<val, lowerIsBetter, key, chartBuilt, dataPoint, resolverVars, inspectorVars,
                   runVars, sessionVars>>

\* the metrics-by-question chart mounts and derives the data point of a metric
BuildChartData ==
    /\ ~chartBuilt
    /\ chartBuilt' = TRUE
    /\ dataPoint' = convertToGoodness(val, key)
    /\ log' = log \o convertToGoodnessLog(val)
                  \o <<LogEntry("INFO", "MetricsByQuestion rendered successfully")>>
    /\ UNCHANGED <<val, lowerIsBetter, key, barRendered, norm, effective, resolverVars,
                   inspectorVars, runVars, sessionVars>>

NextMetric == RenderMetricBar \/ BuildChartData

SpecMetric == InitMetric /\ [][NextMetric]_vars

\* C10: normalize returns v for v in [0,1], v/100 for v in (1,100], and otherwise v
\* clamped into [0,1]; the result is always in [0,1].
C10_Normalize ==
    barRendered =>
        /\ (val >= 0 /\ val <= Hundredths(1)) => norm = RawToNorm(val)
        /\ (val > Hundredths(1) /\ val <= Hundredths(100)) => norm = val
        /\ val < 0 => norm = 0
        /\ val > Hundredths(100) => norm = OneNorm
        /\ norm >= 0 /\ norm <= OneNorm

\* the raw value 142 is clamped to 1
C10_Witness ==
    /\ barRendered
    /\ val = Hundredths(142)
    /\ norm = OneNorm

\* the goodness the claim states for a raw value and a metric key
StatedGoodness(v, k) ==
    IF k \in {"hallucination", "noise_sensitivity_in_relevant",
              "noise_sensitivity_in_irrelevant"}
    THEN OneNorm - normalize(v)
    ELSE normalize(v)

IsWarning(entry) == entry.level = "WARNING"
WarningCount(l) == Len(SelectSeq(l, IsWarning))

\* C12: normalising a raw value outside [0,100] records a warning besides
\* returning the clamped value, and normalising a value inside [0,100] records
\* none: a render of the metric bar, which normalises the bar's value, adds a
\* warning to the log exactly when the value is out of range.
C12_WarningOutOfRange ==
    [][(~barRendered /\ barRendered') =>
          /\ norm' >= 0 /\ norm' <= OneNorm
          /\ OutOfRange(val) => WarningCount(log') > WarningCount(log)
          /\ ~OutOfRange(val) => WarningCount(log') = WarningCount(log)]_vars

----------------------------------------------------------------------------
(* Chunk analysis: the run as the front end receives it *)

\* A string of a chunk (doc_id, text) is the sequence of its characters, so that
\* template strings, trim and replace act on it as they do in JavaScript.  The
\* empty sequence stands for the empty string and for a missing field alike:
\* the code tests both with !chunk?.doc_id / !chunk?.text.
\* a test that takes every chunk, whatever its fields hold
Truthy_Always(str) == TRUE

Truthy(str) == str # <<>>

\* A numeric field or result that holds no number (undefined, or NaN) is the
\* integer below every count; the code reads both alike (Number(x) || 0, x || 0,
\* and arithmetic on either gives NaN).
NotANumber == 0 - 1
IsNumber(x) == x # NotANumber

\* a ratio num / den, kept exact; 0 / 0 is NaN and also stands for a rate field
\* that is missing
Ratio(num, den) == <<num, den>>
NaN == Ratio(0, 0)
ZeroRatio == Ratio(0, 1)
OneRatio == Ratio(1, 1)
IsRatio(x) == x # NaN

\* a chunk without effectiveness_analysis, and the box shown for it
NoAnalysis == [absent |-> TRUE]
SameRatio(x, y) == IsRatio(x) /\ IsRatio(y) /\ x[1] * y[2] = y[1] * x[2]

\* the relation counts of one chunk occurrence in its own question
LocalAnalysis(gtE, gtN, gtC, respE, respN, respC) ==
    [local_gt_entailments |-> gtE, local_gt_neutrals |-> gtN,
     local_gt_contradictions |-> gtC, local_gt_total |-> gtE + gtN + gtC,
     local_response_entailments |-> respE, local_response_neutrals |-> respN,
     local_response_contradictions |-> respC,
     local_response_total |-> respE + respN + respC]

RawChunk(doc, text, local) == [doc_id |-> doc, text |-> text, local_analysis |-> local]

\* the chunks the modelled runs are made of: two chunks whose doc_id and text
\* differ but concatenate alike, chunks of one document and of another whose
\* texts differ in white space only, and a chunk without doc_id
ChunkPool ==
    { RawChunk(<<"a">>, <<"b", ":", "a", " ", "a">>, LocalAnalysis(1, 0, 0, 0, 1, 0)),
      RawChunk(<<"a", ":", "b">>, <<"a", " ", "a">>, LocalAnalysis(0, 1, 0, 1, 0, 0)),
      RawChunk(<<"b">>, <<"a", " ", "a">>, LocalAnalysis(0, 0, 1, 0, 0, 1)),
      RawChunk(<<"b">>, <<" ", "a", " ", " ", "a">>, LocalAnalysis(1, 1, 0, 0, 0, 0)),
      RawChunk(<<>>, <<"a">>, LocalAnalysis(0, 0, 0, 0, 0, 0)) }

QueryIds == <<"q1", "q2", "q3", "q4">>

\* the (query_id, chunk) occurrences of a run, in the order the run lists them
RECURSIVE OccurrencesFrom(_, _)
OccurrencesFrom(questions, q) ==
    IF q > Len(questions) THEN <<>>
    ELSE [i \in 1..Len(questions[q].retrieved_context) |->
             [query_id |-> questions[q].query_id,
              chunk |-> questions[q].retrieved_context[i]]]
         \o OccurrencesFrom(questions, q + 1)

Occurrences(questions) == OccurrencesFrom(questions, 1)

\* whether the aggregation takes a chunk: it needs a doc_id and a text
IsValidChunk(chunk) == Truthy(chunk.doc_id) /\ Truthy(chunk.text)

----------------------------------------------------------------------------
(* Global effectiveness as the run loader attaches it to every chunk *)

\* index of the table entry of (doc, text), 0 if there is none
EntryOfPair(table, doc, text) ==
    IF \E k \in 1..Len(table) : table[k].doc_id = doc /\ table[k].text = text
    THEN CHOOSE k \in 1..Len(table) : table[k].doc_id = doc /\ table[k].text = text
    ELSE 0

AppendUnique(list, x) ==
    IF \E i \in 1..Len(list) : list[i] = x THEN list ELSE Append(list, x)

\* the table after one more occurrence
AccumulateOccurrence(table, occ) ==
    LET c == occ.chunk
        l == c.local_analysis
        k == EntryOfPair(table, c.doc_id, c.text)
        old == IF k = 0
               THEN [doc_id |-> c.doc_id, text |-> c.text, total_appearances |-> 0,
                     questions_appeared |-> <<>>,
                     gt_entailments |-> 0, gt_neutrals |-> 0, gt_contradictions |-> 0,
                     response_entailments |-> 0, response_neutrals |-> 0,
                     response_contradictions |-> 0]
               ELSE table[k]
        new == [old EXCEPT
                  !.total_appearances = @ + 1,
                  !.questions_appeared = AppendUnique(@, occ.query_id),
                  !.gt_entailments = @ + l.local_gt_entailments,
                  !.gt_neutrals = @ + l.local_gt_neutrals,
                  !.gt_contradictions = @ + l.local_gt_contradictions,
                  !.response_entailments = @ + l.local_response_entailments,
                  !.response_neutrals = @ + l.local_response_neutrals,
                  !.response_contradictions = @ + l.local_response_contradictions]
    IN  IF ~IsValidChunk(c) THEN table
        ELSE IF k = 0 THEN Append(table, new)
        ELSE [table EXCEPT ![k] = new]

RECURSIVE AccumulateFrom(_, _, _)
AccumulateFrom(table, occs, i) ==
    IF i > Len(occs) THEN table
    ELSE AccumulateFrom(AccumulateOccurrence(table, occs[i]), occs, i + 1)

\* entailments / (entailments + neutrals + contradictions), 0 without relations
EntailmentRate(e, n, c) == IF e + n + c = 0 THEN ZeroRatio ELSE Ratio(e, e + n + c)

\* 1-based rank by descending frequency, ties in first-encountered order
FrequencyRank(table, k) ==
    1 + Cardinality({j \in 1..Len(table) :
                        \/ table[j].total_appearances > table[k].total_appearances
                        \/ /\ table[j].total_appearances = table[k].total_appearances
                           /\ j < k})

\* the effectiveness table of a run: one entry per (doc_id, text)
runEffectiveness(questions) ==
    LET table == AccumulateFrom(<<>>, Occurrences(questions), 1)
    IN  [k \in 1..Len(table) |->
            [doc_id |-> table[k].doc_id, text |-> table[k].text,
             total_appearances |-> table[k].total_appearances,
             questions_appeared |-> table[k].questions_appeared,
             frequency_rank |-> FrequencyRank(table, k),
             total_unique_chunks |-> Len(table),
             gt_entailments |-> table[k].gt_entailments,
             gt_neutrals |-> table[k].gt_neutrals,
             gt_contradictions |-> table[k].gt_contradictions,
             response_entailments |-> table[k].response_entailments,
             response_neutrals |-> table[k].response_neutrals,
             response_contradictions |-> table[k].response_contradictions,
             gt_entailment_rate |->
                 EntailmentRate(table[k].gt_entailments, table[k].gt_neutrals,
                                table[k].gt_contradictions),
             response_entailment_rate |->
                 EntailmentRate(table[k].response_entailments, table[k].response_neutrals,
                                table[k].response_contradictions)]]

\* the effectiveness_analysis of a chunk: its table entry without the identity
EffectivenessOf(table, chunk) ==
    LET k == EntryOfPair(table, chunk.doc_id, chunk.text)
    IN  IF k = 0 THEN NoAnalysis
        ELSE [f \in (DOMAIN table[k]) \ {"doc_id", "text"} |-> table[k][f]]

\* a chunk as the front end receives it
LoadedChunk(doc, text, eff, local) ==
    [doc_id |-> doc, text |-> text, effectiveness_analysis |-> eff,
     local_analysis |-> local]

\* the run with the global effectiveness attached to every occurrence
AttachEffectiveness(questions) ==
    LET table == runEffectiveness(questions)
    IN  [q \in 1..Len(questions) |->
            [query_id |-> questions[q].query_id,
             retrieved_context |->
                 [i \in 1..Len(questions[q].retrieved_context) |->
                     LET c == questions[q].retrieved_context[i]
                     IN  LoadedChunk(c.doc_id, c.text, EffectivenessOf(table, c),
                                     c.local_analysis)]]]

----------------------------------------------------------------------------
(* Chunk analysis: aggregation of the run by chunk *)

\* `${chunk.doc_id}:${chunk.text}`
ChunkKey(doc, text) == doc \o <<":">> \o text

IsSpace(ch) == ch = " "

\* text.split(/\s+/).filter(word => word.length > 0).length
RECURSIVE WordCountFrom(_, _, _)
WordCountFrom(text, i, inWord) ==
    IF i > Len(text) THEN 0
    ELSE IF IsSpace(text[i]) THEN WordCountFrom(text, i + 1, FALSE)
    ELSE (IF inWord THEN 0 ELSE 1) + WordCountFrom(text, i + 1, TRUE)

WordCount(text) == WordCountFrom(text, 1, FALSE)

\* index of the entry a Map holds for key, 0 if it has none
IndexOfKey(map, k) ==
    IF \E i \in 1..Len(map) : map[i].key = k
    THEN CHOOSE i \in 1..Len(map) : map[i].key = k
    ELSE 0

\* question.query_id || 'unknown'
QuestionIdOf(queryId) == IF queryId = "" \/ queryId = Undefined THEN "unknown" ELSE queryId

\* Math.max(0, Number(x) || 0)
NumberOrZero(x) == IF ~IsNumber(x) THEN 0 ELSE Max(0, x)

\* Math.max(0, Math.min(1, Number(x) || 0)) of a ratio
ClampRate(x) ==
    IF ~IsRatio(x) THEN ZeroRatio
    ELSE IF x[1] > x[2] THEN OneRatio
    ELSE IF x[1] < 0 THEN ZeroRatio
    ELSE x

\* the EnhancedChunkData built from a chunk's effectiveness_analysis
EnhancedChunk(k, chunk) ==
    LET eff == chunk.effectiveness_analysis
    IN  [key |-> k, doc_id |-> chunk.doc_id, text |-> chunk.text,
         frequency |-> NumberOrZero(eff.total_appearances),
         frequency_rank |-> NumberOrZero(eff.frequency_rank),
         questions |-> eff.questions_appeared,
         wordCount |-> WordCount(chunk.text),
         gt_entailments |-> NumberOrZero(eff.gt_entailments),
         gt_neutrals |-> NumberOrZero(eff.gt_neutrals),
         gt_contradictions |-> NumberOrZero(eff.gt_contradictions),
         response_entailments |-> NumberOrZero(eff.response_entailments),
         response_neutrals |-> NumberOrZero(eff.response_neutrals),
         response_contradictions |-> NumberOrZero(eff.response_contradictions),
         gt_entailment_rate |-> ClampRate(eff.gt_entailment_rate),
         response_entailment_rate |-> ClampRate(eff.response_entailment_rate)]

\* maps that start with a zero-filled entry instead of starting empty
EmptyMaps_Seeded ==
    [chunkMap |-> <<[key |-> <<":">>, doc_id |-> <<>>, text |-> <<>>, frequency |-> 0,
                     questions |-> <<>>, wordCount |-> 0]>>,
     enhancedChunkMap |-> <<>>]

EmptyMaps == [chunkMap |-> <<>>, enhancedChunkMap |-> <<>>]

\* a pass that counts a chunk once, when its entry is made
ScanChunk_CountOnce(maps, occ) ==
    LET chunk == occ.chunk
        k == ChunkKey(chunk.doc_id, chunk.text)
    IN  IF ~Truthy(chunk.doc_id) \/ ~Truthy(chunk.text) THEN maps
        ELSE IF IndexOfKey(maps.chunkMap, k) # 0 THEN maps
        ELSE [maps EXCEPT !.chunkMap =
                 Append(@, [key |-> k, doc_id |-> chunk.doc_id, text |-> chunk.text,
                            frequency |-> 1, questions |-> <<QuestionIdOf(occ.query_id)>>,
                            wordCount |-> WordCount(chunk.text)])]

\* the body of question.retrieved_context.forEach for one chunk
ScanChunk(maps, occ) ==
    LET chunk == occ.chunk
        k == ChunkKey(chunk.doc_id, chunk.text)
        created == IF IndexOfKey(maps.chunkMap, k) = 0
                   THEN Append(maps.chunkMap,
                               [key |-> k, doc_id |-> chunk.doc_id, text |-> chunk.text,
                                frequency |-> 0, questions |-> <<>>,
                                wordCount |-> WordCount(chunk.text)])
                   ELSE maps.chunkMap
        i == IndexOfKey(created, k)
        questionId == QuestionIdOf(occ.query_id)
        counted == [created EXCEPT ![i].frequency = @ + 1,
                                   ![i].questions = AppendUnique(@, questionId)]
        enhanced == IF /\ chunk.effectiveness_analysis # NoAnalysis
                       /\ IndexOfKey(maps.enhancedChunkMap, k) = 0
                    THEN Append(maps.enhancedChunkMap, EnhancedChunk(k, chunk))
                    ELSE maps.enhancedChunkMap
    IN  IF ~Truthy(chunk.doc_id) \/ ~Truthy(chunk.text) THEN maps
        ELSE [chunkMap |-> counted, enhancedChunkMap |-> enhanced]

\* questions.forEach over the run
RECURSIVE ScanFrom(_, _, _)
ScanFrom(maps, occs, i) ==
    IF i > Len(occs) THEN maps
    ELSE ScanFrom(ScanChunk(maps, occs[i]), occs, i + 1)

ScanRun(questions) == ScanFrom(EmptyMaps, Occurrences(questions), 1)

----------------------------------------------------------------------------
(* Chunk analysis: length distribution and duplicate groups *)

\* Math.floor(Math.max(0, wordCount) / 50) * 50
LengthBucket(wordCount) == (Max(0, wordCount) \div 50) * 50

\* the elements of a finite set of numbers in ascending order
RECURSIVE Ascending(_)
Ascending(numbers) ==
    IF numbers = {} THEN <<>>
    ELSE LET least == CHOOSE x \in numbers : \A y \in numbers : x <= y
         IN  <<least>> \o Ascending(numbers \ {least})

lengthDistributionDataOf(map) ==
    LET counted == {i \in 1..Len(map) : map[i].wordCount # 0}
        buckets == Ascending({LengthBucket(map[i].wordCount) : i \in counted})
    IN  [b \in 1..Len(buckets) |->
            [lengthRange |-> <<buckets[b], buckets[b] + 49>>,
             count |-> Cardinality({i \in counted :
                                       LengthBucket(map[i].wordCount) = buckets[b]}),
             length |-> buckets[b]]]

\* text.trim()
RECURSIVE Trim(_)
Trim(text) ==
    IF text = <<>> THEN text
    ELSE IF IsSpace(Head(text)) THEN Trim(Tail(text))
    ELSE IF IsSpace(text[Len(text)]) THEN Trim(SubSeq(text, 1, Len(text) - 1))
    ELSE text

\* text.replace(/\s+/g, ' ')
RECURSIVE CollapseSpaces(_)
CollapseSpaces(text) ==
    IF text = <<>> THEN text
    ELSE IF IsSpace(Head(text)) /\ Len(text) > 1 /\ IsSpace(text[2])
         THEN CollapseSpaces(Tail(text))
    ELSE <<Head(text)>> \o CollapseSpaces(Tail(text))

\* chunk.text.trim().replace(/\s+/g, ' ')
NormalizedText(text) == CollapseSpaces(Trim(text))

IndexOfGroup(groups, normalized) ==
    IF \E i \in 1..Len(groups) : groups[i].normalizedText = normalized
    THEN CHOOSE i \in 1..Len(groups) : groups[i].normalizedText = normalized
    ELSE 0

\* chunkMap.forEach filling duplicateMap
RECURSIVE duplicateMapFrom(_, _, _)
duplicateMapFrom(groups, map, i) ==
    IF i > Len(map) THEN groups
    ELSE LET chunk == map[i]
             normalized == NormalizedText(chunk.text)
             member == [doc_id |-> IF Truthy(chunk.doc_id) THEN chunk.doc_id
                                   ELSE <<"u", "n", "k", "n", "o", "w", "n">>,
                        text |-> chunk.text]
             made == IF IndexOfGroup(groups, normalized) = 0
                     THEN Append(groups, [normalizedText |-> normalized, chunks |-> <<>>])
                     ELSE groups
             g == IndexOfGroup(made, normalized)
         IN  IF ~Truthy(chunk.text) THEN duplicateMapFrom(groups, map, i + 1)
             ELSE duplicateMapFrom([made EXCEPT ![g].chunks = Append(@, member)],
                                   map, i + 1)

IsValidMember(member) == Truthy(member.doc_id) /\ Truthy(member.text)

\* new Set(chunks.map(c => c?.doc_id).filter(Boolean))
UniqueDocIds(chunks) ==
    {chunks[i].doc_id : i \in {j \in 1..Len(chunks) : Truthy(chunks[j].doc_id)}}


\* the filter of duplicateGroups
IsReportedGroup(group) ==
    IF Len(group.chunks) <= 1 THEN FALSE
    ELSE Cardinality(UniqueDocIds(group.chunks)) > 1

\* stable insertion of a group by descending member count
RECURSIVE SortGroupsFrom(_, _, _)
SortGroupsFrom(sorted, groups, i) ==
    IF i > Len(groups) THEN sorted
    ELSE LET g == groups[i]
             before == Cardinality({j \in 1..Len(sorted) :
                                       Len(sorted[j].chunks) >= Len(g.chunks)})
         IN  SortGroupsFrom(SubSeq(sorted, 1, before) \o <<g>>
                                \o SubSeq(sorted, before + 1, Len(sorted)),
                            groups, i + 1)

duplicateGroupsOf(map) ==
    LET all == duplicateMapFrom(<<>>, map, 1)
        reported == SelectSeq(all, IsReportedGroup)
        mapped == [i \in 1..Len(reported) |->
                      [normalizedText |-> reported[i].normalizedText,
                       chunks |-> SelectSeq(reported[i].chunks, IsValidMember)]]
    IN  SortGroupsFrom(<<>>, mapped, 1)

RECURSIVE TotalWordsFrom(_, _)
TotalWordsFrom(map, i) ==
    IF i > Len(map) THEN 0 ELSE map[i].wordCount + TotalWordsFrom(map, i + 1)

\* Math.round(a / b) for a >= 0, b > 0
RoundedQuotient(a, b) == (2 * a + b) \div (2 * b)

statsOf(map, groups) ==
    [totalUniqueChunks |-> Len(map),
     averageLength |-> IF Len(map) > 0 THEN RoundedQuotient(TotalWordsFrom(map, 1), Len(map))
                       ELSE 0,
     duplicateGroups |-> Len(groups)]

----------------------------------------------------------------------------
(* Chunk analysis: frequency ranking and entailment chart *)

\* useState<number>(20)
TopN == 20

\* Math.max(1, Math.min(Number(topN) || 20, 1000))
validTopN == Max(1, Min(TopN, 1000))

\* the validation filter of both charts
IsChartable(chunk) ==
    Truthy(chunk.doc_id) /\ Truthy(chunk.text) /\ chunk.frequency >= 0

\* a ranking that keeps the order of the table
SortByFrequencyFrom_Unsorted(sorted, chunks, i) == chunks

\* [...].sort((a, b) => freqB - freqA): stable, descending
RECURSIVE SortByFrequencyFrom(_, _, _)
SortByFrequencyFrom(sorted, chunks, i) ==
    IF i > Len(chunks) THEN sorted
    ELSE LET c == chunks[i]
             before == Cardinality({j \in 1..Len(sorted) :
                                       sorted[j].frequency >= c.frequency})
         IN  SortByFrequencyFrom(SubSeq(sorted, 1, before) \o <<c>>
                                     \o SubSeq(sorted, before + 1, Len(sorted)),
                                 chunks, i + 1)

\* array.slice(0, n)
Slice(array, n) == SubSeq(array, 1, Min(n, Len(array)))

HasFrequency(item) == item.frequency > 0

frequencyChartDataOf(data) ==
    LET sorted == Slice(SortByFrequencyFrom(<<>>, SelectSeq(data, IsChartable), 1),
                        validTopN)
        items == [i \in 1..Len(sorted) |->
                     [frequency |-> Max(0, sorted[i].frequency),
                      chunk |-> sorted[i], index |-> i - 1]]
    IN  SelectSeq(items, HasFrequency)

\* entVal / neuVal / conVal: a share of the total when showPercent is on and the
\* total is positive, the count itself otherwise
ChartValue(count, totals, percent) ==
    IF percent /\ totals > 0 THEN Ratio(count, totals) ELSE Ratio(count, 1)

\* chartData, sorted by frequency (the initial sortBy)
chartDataOf(data, mode, percent) ==
    LET sorted == Slice(SortByFrequencyFrom(<<>>, SelectSeq(data, IsChartable), 1),
                        validTopN)
    IN  [i \in 1..Len(sorted) |->
            LET chunk == sorted[i]
                entailments == IF mode = "retrieved2answer"
                               THEN Max(0, chunk.gt_entailments)
                               ELSE Max(0, chunk.response_entailments)
                neutrals == IF mode = "retrieved2answer"
                            THEN Max(0, chunk.gt_neutrals)
                            ELSE Max(0, chunk.response_neutrals)
                contradictions == IF mode = "retrieved2answer"
                                  THEN Max(0, chunk.gt_contradictions)
                                  ELSE Max(0, chunk.response_contradictions)
                totals == entailments + neutrals + contradictions
            IN  [entailments |-> ChartValue(entailments, totals, percent),
                 neutrals |-> ChartValue(neutrals, totals, percent),
                 contradictions |-> ChartValue(contradictions, totals, percent),
                 total |-> totals, chunk |-> chunk]]

----------------------------------------------------------------------------
(* Question detail view: local and global analysis of each chunk of a question *)

\* x || 0
OrZero(x) == IF ~IsNumber(x) THEN 0 ELSE x

\* a / b of JavaScript for b that is not 0
Quotient(a, b) == IF ~IsNumber(a) \/ ~IsNumber(b) THEN NaN ELSE Ratio(a, b)

\* (x * 100).toFixed(1): the percentage in tenths of a percent, or the text NaN
ToFixed1Percent(x) ==
    IF ~IsRatio(x) THEN NotANumber ELSE RoundedQuotient(x[1] * 1000, x[2])

\* total ? ((entailments / total) * 100).toFixed(1) : 0
LocalRate(entailments, total) ==
    IF IsNumber(total) /\ total # 0 THEN ToFixed1Percent(Quotient(entailments, total))
    ELSE 0

\* the Global Effectiveness box of a chunk
GlobalBox(eff) ==
    IF eff = NoAnalysis THEN NoAnalysis
    ELSE [total_appearances |-> eff.total_appearances,
          frequency_rank |-> eff.frequency_rank,
          total_unique_chunks |-> eff.total_unique_chunks,
          gt_entailments |-> eff.gt_entailments, gt_neutrals |-> eff.gt_neutrals,
          gt_contradictions |-> eff.gt_contradictions,
          gt_rate |-> ToFixed1Percent(eff.gt_entailment_rate),
          response_entailments |-> eff.response_entailments,
          response_neutrals |-> eff.response_neutrals,
          response_contradictions |-> eff.response_contradictions,
          response_rate |-> ToFixed1Percent(eff.response_entailment_rate)]

\* the This Question Analysis box of a chunk
LocalBox(local) ==
    [gt_total |-> OrZero(local.local_gt_total),
     response_total |-> OrZero(local.local_response_total),
     gt_entailments |-> OrZero(local.local_gt_entailments),
     gt_neutrals |-> OrZero(local.local_gt_neutrals),
     gt_contradictions |-> OrZero(local.local_gt_contradictions),
     gt_rate |-> LocalRate(local.local_gt_entailments, local.local_gt_total),
     response_entailments |-> OrZero(local.local_response_entailments),
     response_neutrals |-> OrZero(local.local_response_neutrals),
     response_contradictions |-> OrZero(local.local_response_contradictions),
     response_rate |-> LocalRate(local.local_response_entailments,
                                 local.local_response_total)]

\* question.retrieved_context.map of the detail view
DetailOf(q) ==
    [i \in 1..Len(q.retrieved_context) |->
        [doc_id |-> q.retrieved_context[i].doc_id,
         text |-> q.retrieved_context[i].text,
         local |-> LocalBox(q.retrieved_context[i].local_analysis),
         global |-> GlobalBox(q.retrieved_context[i].effectiveness_analysis)]]

----------------------------------------------------------------------------
(* Run specification: a loaded run, analysed and inspected *)

\* how MaxOccurrences chunks spread over the questions of a run: the question of
\* every occurrence, no question left empty
Splits(n) ==
    {split \in [1..n -> 1..MaxQuestions] :
        /\ n > 0 => split[1] = 1
        /\ \A i \in 1..(n - 1) : split[i + 1] \in {split[i], split[i] + 1}}

QuestionCount(split, n) == IF n = 0 THEN 0 ELSE split[n]

\* the run whose i-th occurrence is chunks[i], in question split[i]
RawRun(chunks, split, n) ==
    [q \in 1..QuestionCount(split, n) |->
        LET mine == {i \in 1..n : split[i] = q}
            first == CHOOSE i \in mine : \A j \in mine : i <= j
            last == CHOOSE i \in mine : \A j \in mine : i >= j
        IN  [query_id |-> QueryIds[q], retrieved_context |-> SubSeq(chunks, first, last)]]

\* a count field of an analysis record that need not be there
CountValues == {NotANumber} \cup (0..MaxCount)

\* an effectiveness_analysis of a chunk seen once, with the given ground-truth fields
PartialEffectiveness(e, n, c, rate) ==
    [total_appearances |-> 1, questions_appeared |-> <<"q1">>, frequency_rank |-> 1,
     total_unique_chunks |-> 1,
     gt_entailments |-> e, gt_neutrals |-> n, gt_contradictions |-> c,
     response_entailments |-> 0, response_neutrals |-> 0, response_contradictions |-> 0,
     gt_entailment_rate |-> rate, response_entailment_rate |-> ZeroRatio]

\* a local_analysis with the given ground-truth entailments, neutrals and total
PartialLocal(e, n, total) ==
    [local_gt_entailments |-> e, local_gt_neutrals |-> n, local_gt_contradictions |-> 0,
     local_gt_total |-> total,
     local_response_entailments |-> 0, local_response_neutrals |-> 0,
     local_response_contradictions |-> 0, local_response_total |-> 0]

\* a run of one question with one chunk
SingleChunkRun(eff, local) ==
    <<[query_id |-> "q1",
       retrieved_context |-> <<LoadedChunk(<<"a">>, <<"a">>, eff, local)>>]>>

InitRun ==
    /\ \/ \E n \in 0..MaxOccurrences :
             \E chunks \in [1..n -> ChunkPool], split \in Splits(n) :
                run = AttachEffectiveness(RawRun(chunks, split, n))
       \/ \E e \in CountValues, n \in CountValues, c \in CountValues :
             run = SingleChunkRun(
                      PartialEffectiveness(e, n, c,
                          EntailmentRate(OrZero(e), OrZero(n), OrZero(c))),
                      LocalAnalysis(1, 0, 0, 0, 0, 0))
       \/ \E e \in CountValues, n \in CountValues :
             \E total \in {NotANumber, OrZero(e) + OrZero(n)} :
                run = SingleChunkRun(PartialEffectiveness(1, 0, 0, OneRatio),
                                     PartialLocal(e, n, total))
    /\ analysed = FALSE /\ showPercent = FALSE /\ analysisMode = "retrieved2answer"
    /\ chunkMap = <<>> /\ enhancedChunkData = <<>> /\ duplicateGroups = <<>>
    /\ lengthDistributionData = <<>> /\ stats = Undefined
    /\ frequencyChartData = <<>> /\ chartData = <<>>
    /\ inspected = 0 /\ detail = <<>>
    /\ ResolverIdle /\ InspectorIdle /\ MetricIdle /\ SessionIdle

\* the chunks tab renders ChunkAnalysis for the questions of the run
Analyse ==
    /\ ~analysed
    /\ analysed' = TRUE
    /\ LET maps == ScanRun(run)
           groups == duplicateGroupsOf(maps.chunkMap)
       IN  /\ chunkMap' = maps.chunkMap
           /\ enhancedChunkData' = SelectSeq(maps.enhancedChunkMap, IsChartable)
           /\ duplicateGroups' = groups
           /\ lengthDistributionData' = lengthDistributionDataOf(maps.chunkMap)
           /\ stats' = statsOf(maps.chunkMap, groups)
           /\ frequencyChartData' =
                  frequencyChartDataOf(SelectSeq(maps.enhancedChunkMap, IsChartable))
           /\ chartData' = chartDataOf(SelectSeq(maps.enhancedChunkMap, IsChartable),
                                       analysisMode, showPercent)
    /\ UNCHANGED <<run, showPercent, analysisMode, inspected, detail, resolverVars,
                   inspectorVars, metricVars, sessionVars>>

\* the Show as % checkbox
SetShowPercent ==
    /\ analysed
    /\ showPercent' = ~showPercent
    /\ chartData' = chartDataOf(enhancedChunkData, analysisMode, ~showPercent)
    /\ UNCHANGED <<run, analysed, analysisMode, chunkMap, enhancedChunkData,
                   duplicateGroups, lengthDistributionData, stats, frequencyChartData,
                   inspected, detail, resolverVars, inspectorVars, metricVars, sessionVars>>

\* the Ground Truth / Response mode buttons
SetAnalysisMode ==
    /\ analysed
    /\ \E mode \in {"retrieved2answer", "retrieved2response"} :
          /\ mode # analysisMode
          /\ analysisMode' = mode
          /\ chartData' = chartDataOf(enhancedChunkData, mode, showPercent)
    /\ UNCHANGED <<run, analysed, showPercent, chunkMap, enhancedChunkData,
                   duplicateGroups, lengthDistributionData, stats, frequencyChartData,
                   inspected, detail, resolverVars, inspectorVars, metricVars, sessionVars>>

\* the inspector tab shows the chunks of a question of the run
InspectQuestion ==
    /\ \E q \in 1..Len(run) :
          /\ q # inspected
          /\ inspected' = q
          /\ detail' = DetailOf(run[q])
    /\ UNCHANGED <<run, analysed, showPercent, analysisMode, chunkMap,
                   enhancedChunkData, duplicateGroups, lengthDistributionData, stats,
                   frequencyChartData, chartData, resolverVars, inspectorVars,
                   metricVars, sessionVars>>

NextRun == Analyse \/ SetShowPercent \/ SetAnalysisMode \/ InspectQuestion

SpecRun == InitRun /\ [][NextRun]_vars

----------------------------------------------------------------------------
(* Claims about the chunk analysis *)

AllOccurrences == Occurrences(run)

\* the occurrences the aggregation takes
TakenOccurrences == SelectSeq(AllOccurrences, LAMBDA occ : IsValidChunk(occ.chunk))

SamePair(c, d) == c.doc_id = d.doc_id /\ c.text = d.text

\* the table entry an occurrence is accumulated into
EntryIndexOf(occ) == IndexOfKey(chunkMap, ChunkKey(occ.chunk.doc_id, occ.chunk.text))

\* C13: two chunk occurrences are accumulated into the same entry of the
\* aggregation table if and only if they have the same doc_id and the same
\* exact text.
C13_ChunkIdentity ==
    analysed =>
        \A i, j \in 1..Len(TakenOccurrences) :
            (EntryIndexOf(TakenOccurrences[i]) = EntryIndexOf(TakenOccurrences[j]))
                <=> SamePair(TakenOccurrences[i].chunk, TakenOccurrences[j].chunk)

RECURSIVE SumFrequencyFrom(_, _)
SumFrequencyFrom(map, i) ==
    IF i > Len(map) THEN 0 ELSE map[i].frequency + SumFrequencyFrom(map, i + 1)

\* C14 as stated: the frequencies of the unique chunk entries sum to the number
\* of (question, chunk) occurrences of the run.
C14_Conservation ==
    analysed => SumFrequencyFrom(chunkMap, 1) = Len(AllOccurrences)

\* C14 as amended: the frequencies of the unique chunk entries sum to the number
\* of (question, chunk) occurrences of the run whose chunk has both a doc_id and
\* a text; an occurrence lacking either is left out of the table.
C14_ConservationOfTaken ==
    analysed => SumFrequencyFrom(chunkMap, 1) = Len(TakenOccurrences)

\* a chunk counted twice next to an occurrence without doc_id
C14_Witness ==
    /\ analysed
    /\ \E k \in 1..Len(chunkMap) : chunkMap[k].frequency = 2
    /\ Len(TakenOccurrences) < Len(AllOccurrences)

RECURSIVE WithoutRepeats(_)
WithoutRepeats(list) ==
    IF list = <<>> THEN list
    ELSE LET rest == WithoutRepeats(SubSeq(list, 1, Len(list) - 1))
             x == list[Len(list)]
         IN  IF \E i \in 1..Len(rest) : rest[i] = x THEN rest ELSE Append(rest, x)

\* the query_ids of the questions in which the chunk (doc, text) occurs, each
\* once, in the order the run lists them
QuestionsOfPair(doc, text) ==
    LET mine == SelectSeq(AllOccurrences,
                          LAMBDA occ : occ.chunk.doc_id = doc /\ occ.chunk.text = text)
    IN  WithoutRepeats([i \in 1..Len(mine) |-> mine[i].query_id])

\* C15: for every aggregated chunk, questions_appeared holds each query_id at
\* most once and holds exactly the query_ids of the questions in which that
\* (doc_id, text) chunk occurs, in first-encountered order.
C15_QuestionsAppeared ==
    analysed =>
        \A k \in 1..Len(chunkMap) :
            chunkMap[k].questions = QuestionsOfPair(chunkMap[k].doc_id, chunkMap[k].text)

\* the number of occurrences of the chunk of the t-th taken occurrence
CountOfPair(c) ==
    Len(SelectSeq(TakenOccurrences, LAMBDA occ : SamePair(occ.chunk, c)))

\* the position of the first occurrence of a chunk among the taken occurrences
FirstSeen(c) ==
    CHOOSE i \in 1..Len(TakenOccurrences) :
        /\ SamePair(TakenOccurrences[i].chunk, c)
        /\ \A j \in 1..(i - 1) : ~SamePair(TakenOccurrences[j].chunk, c)

\* the 1-based position of a chunk when the unique chunks are ordered by
\* descending frequency, ties in first-encountered order
RankOfPair(c) ==
    1 + Cardinality({i \in 1..Len(TakenOccurrences) :
                        LET d == TakenOccurrences[i].chunk
                        IN  /\ FirstSeen(d) = i
                            /\ \/ CountOfPair(d) > CountOfPair(c)
                               \/ CountOfPair(d) = CountOfPair(c) /\ i < FirstSeen(c)})

StatedRate(e, n, c) == IF e + n + c = 0 THEN ZeroRatio ELSE Ratio(e, e + n + c)

\* a shown percentage (in tenths of a percent) that is a number within 0..100 %
IsShownRate(x) == IsNumber(x) /\ x >= 0 /\ x <= 1000

RateWithinUnit(x) == IsRatio(x) /\ x[1] >= 0 /\ x[1] <= x[2]

\* C17: every entailment rate shown for a chunk equals entailments /
\* (entailments + neutrals + contradictions), is 0 when that denominator is 0,
\* and is never NaN or outside [0,1], whichever count fields are present or
\* missing: in the table of the chunk analysis, in its chart when it shows
\* percentages, and in the local and global boxes of the question detail view.
C17_EntailmentRates ==
    /\ analysed =>
          /\ \A k \in 1..Len(enhancedChunkData) :
                LET c == enhancedChunkData[k]
                IN  /\ RateWithinUnit(c.gt_entailment_rate)
                    /\ RateWithinUnit(c.response_entailment_rate)
                    /\ SameRatio(c.gt_entailment_rate,
                                 StatedRate(c.gt_entailments, c.gt_neutrals,
                                            c.gt_contradictions))
                    /\ SameRatio(c.response_entailment_rate,
                                 StatedRate(c.response_entailments, c.response_neutrals,
                                            c.response_contradictions))
          /\ showPercent =>
                \A p \in 1..Len(chartData) :
                    LET c == chartData[p].chunk
                    IN  /\ RateWithinUnit(chartData[p].entailments)
                        /\ SameRatio(chartData[p].entailments,
                               IF analysisMode = "retrieved2answer"
                               THEN StatedRate(c.gt_entailments, c.gt_neutrals,
                                               c.gt_contradictions)
                               ELSE StatedRate(c.response_entailments,
                                               c.response_neutrals,
                                               c.response_contradictions))
    /\ inspected # 0 =>
          \A i \in 1..Len(detail) :
              /\ IsShownRate(detail[i].local.gt_rate)
              /\ detail[i].local.gt_rate =
                     ToFixed1Percent(StatedRate(detail[i].local.gt_entailments,
                                                detail[i].local.gt_neutrals,
                                                detail[i].local.gt_contradictions))
              /\ IsShownRate(detail[i].local.response_rate)
              /\ detail[i].local.response_rate =
                     ToFixed1Percent(StatedRate(detail[i].local.response_entailments,
                                                detail[i].local.response_neutrals,
                                                detail[i].local.response_contradictions))
              /\ detail[i].global # NoAnalysis =>
                     /\ IsShownRate(detail[i].global.gt_rate)
                     /\ IsShownRate(detail[i].global.response_rate)

\* C18: the global effectiveness figures of a chunk (frequency, rank, relation
\* totals, rates) are the same in the question detail view and in the whole-run
\* chunk view: for every occurrence the detail view shows figures for, the
\* chunk view has that (doc_id, text) chunk with the same figures.
C18_ViewsAgree ==
    (analysed /\ inspected # 0) =>
        \A i \in 1..Len(detail) :
            detail[i].global # NoAnalysis =>
                \E k \in 1..Len(enhancedChunkData) :
                    LET c == enhancedChunkData[k]
                        g == detail[i].global
                    IN  /\ c.doc_id = detail[i].doc_id /\ c.text = detail[i].text
                        /\ c.frequency = g.total_appearances
                        /\ c.frequency_rank = g.frequency_rank
                        /\ c.gt_entailments = g.gt_entailments
                        /\ c.gt_neutrals = g.gt_neutrals
                        /\ c.gt_contradictions = g.gt_contradictions
                        /\ c.response_entailments = g.response_entailments
                        /\ c.response_neutrals = g.response_neutrals
                        /\ c.response_contradictions = g.response_contradictions
                        /\ ToFixed1Percent(c.gt_entailment_rate) = g.gt_rate
                        /\ ToFixed1Percent(c.response_entailment_rate) = g.response_rate

\* the chunks of the run that have a doc_id and a text
TakenChunks ==
    {[doc_id |-> TakenOccurrences[i].chunk.doc_id, text |-> TakenOccurrences[i].chunk.text] :
        i \in 1..Len(TakenOccurrences)}

DocIdsSharing(normalized) ==
    {c.doc_id : c \in {d \in TakenChunks : NormalizedText(d.text) = normalized}}

IsMember(group, c) == \E m \in 1..Len(group.chunks) : group.chunks[m] = c

\* C19: a normalised text is reported as a duplicate group if and only if chunks
\* with at least two distinct doc_ids share it, and any two chunks with the same
\* normalised text but different doc_ids are members of one reported group.
C19_DuplicateGroups ==
    analysed =>
        /\ \A c \in TakenChunks :
              (\E g \in 1..Len(duplicateGroups) :
                    duplicateGroups[g].normalizedText = NormalizedText(c.text))
                 <=> Cardinality(DocIdsSharing(NormalizedText(c.text))) >= 2
        /\ \A c, d \in TakenChunks :
              (NormalizedText(c.text) = NormalizedText(d.text) /\ c.doc_id # d.doc_id) =>
                  \E g \in 1..Len(duplicateGroups) :
                      IsMember(duplicateGroups[g], c) /\ IsMember(duplicateGroups[g], d)

\* C20: no reported duplicate group holds two members with the same doc_id: a
\* group's member count equals its number of distinct doc_ids.
C20_NoSelfDuplicate ==
    analysed =>
        \A g \in 1..Len(duplicateGroups) :
            Len(duplicateGroups[g].chunks) =
                Cardinality(UniqueDocIds(duplicateGroups[g].chunks))

\* a chunk that lacks its doc_id or its text
LacksField(chunk) == chunk.doc_id = <<>> \/ chunk.text = <<>>

HasBothFields(chunk) == ~LacksField(chunk)

\* the run as loaded, with the chunks lacking doc_id or text taken out of every
\* question's retrieved context
WithoutLackingChunks ==
    [q \in 1..Len(run) |->
        [run[q] EXCEPT !.retrieved_context = SelectSeq(@, HasBothFields)]]

\* C21: a chunk lacking doc_id or text is excluded from aggregation, not
\* zero-filled: no table entry and no duplicate group member lacks a field, and
\* the tables are exactly those of the run without such chunks, so the chunk adds
\* to no frequency and all other chunks are aggregated unchanged.
C21_LackingChunkExcluded ==
    analysed =>
        /\ \A i \in 1..Len(chunkMap) : ~LacksField(chunkMap[i])
        /\ \A i \in 1..Len(enhancedChunkData) : ~LacksField(enhancedChunkData[i])
        /\ \A g \in 1..Len(duplicateGroups) :
              \A m \in 1..Len(duplicateGroups[g].chunks) :
                  ~LacksField(duplicateGroups[g].chunks[m])
        /\ LET rest == ScanRun(WithoutLackingChunks)
           IN  /\ chunkMap = rest.chunkMap
               /\ enhancedChunkData = SelectSeq(rest.enhancedChunkMap, IsChartable)
               /\ duplicateGroups = duplicateGroupsOf(rest.chunkMap)
               /\ stats = statsOf(rest.chunkMap, duplicateGroupsOf(rest.chunkMap))

\* a run holding a chunk without doc_id beside a chunk that is aggregated
C21_Witness ==
    /\ analysed
    /\ \E i \in 1..Len(AllOccurrences) : LacksField(AllOccurrences[i].chunk)
    /\ Len(chunkMap) >= 1

----------------------------------------------------------------------------
(* Application shell: run loading, tabs, question selection, and the memoized *)
(* tables of the chunk analysis it mounts                                      *)

\* runs loaded in one session
MaxLoads == 3

Tabs == {"overview", "metrics", "inspector", "chunks"}

\* a question as the run file holds it
RawQuestion(id, chunks) == [query_id |-> id, retrieved_context |-> chunks]

PoolChunk(doc, text) == CHOOSE c \in ChunkPool : c.doc_id = doc /\ c.text = text

\* the results of the runs a session can load: no question; one question; two
\* questions sharing a chunk and holding a duplicated text; two questions with
\* other query ids
AppRuns ==
    { <<>>,
      AttachEffectiveness(
          <<RawQuestion("q1", <<PoolChunk(<<"b">>, <<"a", " ", "a">>)>>)>>),
      AttachEffectiveness(
          <<RawQuestion("q1", <<PoolChunk(<<"b">>, <<"a", " ", "a">>),
                                PoolChunk(<<"a", ":", "b">>, <<"a", " ", "a">>)>>),
            RawQuestion("q2", <<PoolChunk(<<"b">>, <<"a", " ", "a">>)>>)>>),
      AttachEffectiveness(
          <<RawQuestion("q3", <<PoolChunk(<<"b">>, <<" ", "a", " ", " ", "a">>)>>),
            RawQuestion("q4", <<PoolChunk(<<>>, <<"a">>)>>)>>) }

\* what handleRunLoaded sets besides the run itself
handleRunLoaded_SelectNone(results) ==
    [activeTab |-> "overview", selectedQuestionId |-> Null]

handleRunLoaded(results) ==
    [activeTab |-> "overview",
     selectedQuestionId |-> IF Len(results) > 0 THEN results[1].query_id ELSE Null]

handleSelectQuestion_StayOnMetrics(queryId) ==
    [selectedQuestionId |-> queryId, activeTab |-> "metrics"]

handleSelectQuestion(queryId) ==
    [selectedQuestionId |-> queryId, activeTab |-> "inspector"]

\* selectedRun?.results.find(q => q.query_id === selectedQuestionId): the index of
\* the first match, 0 for undefined
selectedQuestionOf(app, id) ==
    IF app = NoRun THEN 0
    ELSE LET hits == {q \in 1..Len(app.results) : app.results[q].query_id = id}
         IN  IF hits = {} THEN 0 ELSE CHOOSE q \in hits : \A r \in hits : q <= r

selectedQuestion == selectedQuestionOf(selectedRun, selectedQuestionId)

\* chartData of the metrics chart: one bar group per question, carrying its id
metricsChartData(questions) ==
    [i \in 1..Len(questions) |-> [index |-> i, queryId |-> questions[i].query_id]]

\* the dependency comparison of useMemo
SameDeps_Always(prev, next) == TRUE

SameDeps(prev, next) == prev = next

\* useMemo: the memoized value is kept while the dependencies are the same
Recompute(memo, deps) == memo = NoMemo \/ ~SameDeps(memo.deps, deps)

\* the tables of the first useMemo of ChunkAnalysis
TablesOf(questions) ==
    LET maps == ScanRun(questions)
        groups == duplicateGroupsOf(maps.chunkMap)
        enhanced == SelectSeq(maps.enhancedChunkMap, IsChartable)
    IN  [lengthDistributionData |-> lengthDistributionDataOf(maps.chunkMap),
         duplicateGroups |-> groups,
         stats |-> statsOf(maps.chunkMap, groups),
         enhancedChunkData |-> enhanced,
         frequencyChartData |-> frequencyChartDataOf(enhanced)]

\* one render of ChunkAnalysis for the questions array with identity id
TableMemoAfter(memo, id, questions) ==
    IF Recompute(memo, <<id, TopN>>)
    THEN [deps |-> <<id, TopN>>, value |-> TablesOf(questions)]
    ELSE memo

ChartMemoAfter(memo, tables, ctl) ==
    LET deps == <<tables.deps, TopN, ctl.analysisMode, ctl.showPercent>>
    IN  IF Recompute(memo, deps)
        THEN [deps |-> deps,
              value |-> chartDataOf(tables.value.enhancedChunkData, ctl.analysisMode,
                                    ctl.showPercent)]
        ELSE memo

\* the render that follows a state change of App: ChunkAnalysis is mounted only
\* under the chunks tab of a loaded run; a component that was not mounted before
\* starts with fresh state and empty memos
RenderApp(app, tab, ctl) ==
    IF app # NoRun /\ tab = "chunks"
    THEN LET was == selectedRun # NoRun /\ activeTab = "chunks"
             tm == TableMemoAfter(IF was THEN tableMemo ELSE NoMemo, app.id, app.results)
             c == IF was THEN ctl ELSE DefaultControls
         IN  /\ tableMemo' = tm
             /\ chartMemo' = ChartMemoAfter(IF was THEN chartMemo ELSE NoMemo, tm, c)
             /\ controls' = c
    ELSE /\ tableMemo' = NoMemo /\ chartMemo' = NoMemo /\ controls' = DefaultControls

outsideApp ==
    <<resolverVars, inspectorVars, metricVars, runVars, deriveVars, evidenceVars, filterVars,
      chatVars, readerVars>>

InitApp ==
    /\ AppIdle
    /\ DeriveIdle /\ EvidenceIdle /\ FilterIdle /\ ChatIdle /\ ReaderIdle
    /\ ResolverIdle /\ InspectorIdle /\ MetricIdle /\ RunIdle

\* RunSelector hands a freshly fetched run to handleRunLoaded
LoadRun ==
    /\ loads < MaxLoads
    /\ \E results \in AppRuns :
          LET app == [id |-> loads + 1, results |-> results]
              set == handleRunLoaded(results)
          IN  /\ selectedRun' = app
              /\ activeTab' = set.activeTab
              /\ selectedQuestionId' = set.selectedQuestionId
              /\ lastEvent' = [kind |-> "load", id |-> Null]
              /\ RenderApp(app, set.activeTab, controls)
    /\ loads' = loads + 1
    /\ UNCHANGED outsideApp

\* a tab button of the navigation, shown once a run is loaded
ClickTab ==
    /\ selectedRun # NoRun
    /\ \E tab \in Tabs :
          /\ activeTab' = tab
          /\ lastEvent' = [kind |-> "tab", id |-> Null]
          /\ RenderApp(selectedRun, tab, controls)
    /\ UNCHANGED <<selectedRun, selectedQuestionId, loads, outsideApp>>

\* a bar of the metrics chart
ClickBar ==
    /\ selectedRun # NoRun /\ activeTab = "metrics"
    /\ \E i \in 1..Len(selectedRun.results) :
          LET data == metricsChartData(selectedRun.results)[i]
              set == handleSelectQuestion(data.queryId)
          IN  /\ selectedQuestionId' = set.selectedQuestionId
              /\ activeTab' = set.activeTab
              /\ lastEvent' = [kind |-> "bar", id |-> data.queryId]
              /\ RenderApp(selectedRun, set.activeTab, controls)
    /\ UNCHANGED <<selectedRun, loads, outsideApp>>

\* the question dropdown of the inspector, which is rendered with the inspector
SelectFromDropdown ==
    /\ selectedRun # NoRun /\ activeTab = "inspector" /\ selectedQuestion # 0
    /\ \E i \in 1..Len(selectedRun.results) :
          /\ selectedQuestionId' = selectedRun.results[i].query_id
          /\ lastEvent' = [kind |-> "dropdown", id |-> selectedRun.results[i].query_id]
    /\ RenderApp(selectedRun, activeTab, controls)
    /\ UNCHANGED <<selectedRun, activeTab, loads, outsideApp>>

\* the controls of the mounted chunk analysis
ChangeControl ==
    /\ selectedRun # NoRun /\ activeTab = "chunks"
    /\ \E ctl \in {[controls EXCEPT !.showPercent = ~@],
                    [controls EXCEPT !.analysisMode = "retrieved2answer"],
                    [controls EXCEPT !.analysisMode = "retrieved2response"]} :
          RenderApp(selectedRun, activeTab, ctl)
    /\ lastEvent' = [kind |-> "control", id |-> Null]
    /\ UNCHANGED <<selectedRun, activeTab, selectedQuestionId, loads, outsideApp>>

NextApp == LoadRun \/ ClickTab \/ ClickBar \/ SelectFromDropdown \/ ChangeControl

SpecApp == InitApp /\ [][NextApp]_vars

----------------------------------------------------------------------------
(* Claims about the application shell *)

EmptyStats == [totalUniqueChunks |-> 0, averageLength |-> 0, duplicateGroups |-> 0]

\* C22: for a run with zero questions every derived view is empty and well typed:
\* zero unique chunks, average length 0, no duplicate groups, no chart rows in the
\* metrics chart or the chunk charts, and no selected question.
C22_EmptyRun ==
    (selectedRun # NoRun /\ selectedRun.results = <<>>) =>
        /\ selectedQuestionId = Null /\ selectedQuestion = 0
        /\ metricsChartData(selectedRun.results) = <<>>
        /\ activeTab = "chunks" =>
              /\ tableMemo # NoMemo /\ chartMemo # NoMemo
              /\ tableMemo.value.stats = EmptyStats
              /\ tableMemo.value.duplicateGroups = <<>>
              /\ tableMemo.value.lengthDistributionData = <<>>
              /\ tableMemo.value.enhancedChunkData = <<>>
              /\ tableMemo.value.frequencyChartData = <<>>
              /\ chartMemo.value = <<>>

\* the chunks tab is open on a run with zero questions
C22_Witness ==
    selectedRun # NoRun /\ selectedRun.results = <<>> /\ activeTab = "chunks"

\* C24: memoized tables are never reused across runs: whenever the chunk analysis
\* is shown, the tables and the chart data it uses are those computed from the
\* most recently loaded run under the current controls.
C24_MemoOfCurrentRun ==
    (selectedRun # NoRun /\ activeTab = "chunks") =>
        /\ tableMemo # NoMemo /\ chartMemo # NoMemo
        /\ tableMemo.value = TablesOf(selectedRun.results)
        /\ chartMemo.value =
               chartDataOf(TablesOf(selectedRun.results).enhancedChunkData,
                           controls.analysisMode, controls.showPercent)

\* a second run is shown in the chunks tab, with a control changed
C24_Witness ==
    /\ loads >= 2 /\ activeTab = "chunks" /\ controls.showPercent
    /\ tableMemo # NoMemo /\ Len(tableMemo.value.duplicateGroups) = 1

QueryIdsOf(app) ==
    IF app = NoRun THEN {} ELSE {app.results[q].query_id : q \in 1..Len(app.results)}

----------------------------------------------------------------------------
(* Per-question derivations over question records that may lack fields *)

\* question records of a run
MaxRecords == 2

\* the fields of a question record that a run file may leave out
OptionalFields == {"response", "gt_answer", "metrics", "claims"}

\* a question record; reading a field named in missing gives undefined
Record(id, missing, response) ==
    [query_id |-> id, missing |-> missing, response |-> response,
     gt_answer |-> <<"a">>, metrics |-> [f1 |-> 50],
     gt_answer_claims |-> <<<<"a">>, <<" ">>>>, response_claims |-> <<<<"b">>>>]

Has(q, field) == field \notin q.missing

\* the outcome of a derivation: a returned value, or an exception that leaves it
Raised == [raised |-> TRUE]
Returned(v) == [raised |-> FALSE, value |-> v]

\* text.split(/\s+/).length: one more than the number of whitespace runs
RECURSIVE SplitLengthFrom(_, _, _)
SplitLengthFrom(text, i, inSpace) ==
    IF i > Len(text) THEN 1
    ELSE IF IsSpace(text[i])
         THEN (IF inSpace THEN 0 ELSE 1) + SplitLengthFrom(text, i + 1, TRUE)
         ELSE SplitLengthFrom(text, i + 1, FALSE)

SplitLength(text) == SplitLengthFrom(text, 1, FALSE)

getWordDifference(q) ==
    IF ~Has(q, "response") THEN Raised
    ELSE LET responseWords == SplitLength(q.response)
             gtWords == IF Has(q, "gt_answer") /\ Truthy(q.gt_answer)
                        THEN SplitLength(q.gt_answer) ELSE 0
         IN  Returned(IF gtWords > 0 THEN responseWords - gtWords ELSE 0)

IsBlank(text) == \A i \in 1..Len(text) : IsSpace(text[i])

NotBlank(text) == ~IsBlank(text)

\* extractClaims of an array of strings, or of a missing claim list
extractClaims(present, raw) == IF ~present THEN <<>> ELSE SelectSeq(raw, NotBlank)

gtClaimsList(q) == extractClaims(Has(q, "claims"), q.gt_answer_claims)

responseClaimsList(q) == extractClaims(Has(q, "claims"), q.response_claims)

\* one render of the inspector for a question: an exception in the render body
\* leaves the render
InspectorRender(q) ==
    LET wordDiff == getWordDifference(q)
    IN  IF wordDiff.raised THEN Raised
        ELSE Returned([wordDiff |-> wordDiff.value, gtClaimsList |-> gtClaimsList(q),
                       responseClaimsList |-> responseClaimsList(q)])

\* the chart entry of a question: Object.entries(question.metrics)
chartDataPoint(q, i) ==
    IF ~Has(q, "metrics") THEN Raised
    ELSE Returned([index |-> i, queryId |-> q.query_id,
                   f1 |-> convertToGoodness(q.metrics.f1, "f1"), f1_raw |-> q.metrics.f1])

\* questions.map of the metrics chart: an exception in the callback leaves the map
chartDataOfRecords(questions) ==
    IF \E i \in 1..Len(questions) : chartDataPoint(questions[i], i).raised THEN Raised
    ELSE Returned([i \in 1..Len(questions) |-> chartDataPoint(questions[i], i).value])

outsideDerive ==
    <<resolverVars, inspectorVars, metricVars, runVars, appVars, evidenceVars, filterVars,
      chatVars, readerVars>>

InitDerive ==
    /\ \E n \in 1..MaxRecords :
          \E missing \in [1..n -> SUBSET OptionalFields],
             response \in [1..n -> {<<"a">>, <<"a", " ", "a">>}] :
             /\ records = [i \in 1..n |-> Record(QueryIds[i], missing[i], response[i])]
             /\ inspectorOut = [i \in 1..n |-> Pending]
    /\ chartOut = Pending
    /\ ResolverIdle /\ InspectorIdle /\ MetricIdle /\ RunIdle /\ AppIdle /\ EvidenceIdle
    /\ FilterIdle /\ ChatIdle /\ ReaderIdle

\* the inspector tab renders QuestionInspector for a question of the run
RenderInspectorFor ==
    /\ \E i \in 1..Len(records) :
          /\ inspectorOut[i] = Pending
          /\ inspectorOut' = [inspectorOut EXCEPT ![i] = InspectorRender(records[i])]
    /\ UNCHANGED <<records, chartOut, outsideDerive>>

\* the metrics tab renders MetricsByQuestion for the questions of the run
RenderMetricsChart ==
    /\ chartOut = Pending
    /\ chartOut' = chartDataOfRecords(records)
    /\ UNCHANGED <<records, inspectorOut, outsideDerive>>

NextDerive == RenderInspectorFor \/ RenderMetricsChart

SpecDerive == InitDerive /\ [][NextDerive]_vars

----------------------------------------------------------------------------
(* Claims about malformed question records *)

\* C23: no derivation raises on a question record missing a field: the
\* inspector's derivations for it return their defaults (word difference 0, empty
\* claim lists), and the metrics chart still holds the entry of every other
\* question of the run.
C23_NoRaise ==
    /\ \A i \in 1..Len(inspectorOut) :
          inspectorOut[i] # Pending =>
              /\ ~inspectorOut[i].raised
              /\ ~Has(records[i], "claims") =>
                     /\ inspectorOut[i].value.gtClaimsList = <<>>
                     /\ inspectorOut[i].value.responseClaimsList = <<>>
              /\ (~Has(records[i], "response") \/ ~Has(records[i], "gt_answer")) =>
                     inspectorOut[i].value.wordDiff = 0
    /\ chartOut # Pending =>
          /\ ~chartOut.raised
          /\ Len(chartOut.value) = Len(records)
          /\ \A i \in 1..Len(records) :
                Has(records[i], "metrics") =>
                    chartOut.value[i] = chartDataPoint(records[i], i).value

----------------------------------------------------------------------------
(* Claims summary and per-chunk claim evidence of the question inspector *)

\* for (i = from; i < n; i++) pushByRel(target, relsForChunk[i], claims[i])
RECURSIVE PushRow(_, _, _, _, _)
PushRow(target, relsForChunk, claims, n, from) ==
    IF from >= n THEN target
    ELSE PushRow(pushByRel(target, At(relsForChunk, from), claims[from + 1]),
                 relsForChunk, claims, n, from + 1)

\* for (i = from; i < claims.length; i++) pushByRel(target, matrix[i][chunkIndex], claims[i])
RECURSIVE PushColumn(_, _, _, _, _)
PushColumn(target, m, claims, chunkIndex, from) ==
    IF from >= Len(claims) THEN target
    ELSE LET rowRel == IF IsRow(m, from) THEN At(m[from + 1], chunkIndex) ELSE Undefined
         IN  PushColumn(pushByRel(target, rowRel, claims[from + 1]), m, claims,
                        chunkIndex, from + 1)

\* relAt of claimSummary: the cell read chunk-major if that row is long enough,
\* else claim-major
relAt(m, chunkIdx, claimIdx) ==
    IF IsRow(m, chunkIdx) /\ Len(m[chunkIdx + 1]) > claimIdx
    THEN m[chunkIdx + 1][claimIdx + 1]
    ELSE IF IsRow(m, claimIdx) /\ Len(m[claimIdx + 1]) > chunkIdx
         THEN m[claimIdx + 1][chunkIdx + 1]
         ELSE Undefined

\* one side of getClaimSetsForChunk: the row of the chunk if the matrix has one,
\* else the column of the chunk if the matrix has one row per claim
sideSetsForChunk(m, claims, chunkIndex) ==
    IF IsRow(m, chunkIndex)
    THEN PushRow(EmptySets, m[chunkIndex + 1], claims,
                 Min(Len(m[chunkIndex + 1]), Len(claims)), 0)
    ELSE IF Len(claims) > 0 /\ Len(m) = Len(claims)
         THEN PushColumn(EmptySets, m, claims, chunkIndex, 0)
         ELSE EmptySets

claimSetsForChunk(q, chunkIndex) ==
    [gt |-> sideSetsForChunk(q.retrieved2answer, q.gt_answer_claims, chunkIndex),
     response |-> sideSetsForChunk(q.retrieved2response, q.response_claims, chunkIndex)]

\* the inner loop of claimSummary: some chunk entails the claim
entailedBySomeChunk(m, chunkCount, claimIdx) ==
    \E j \in 0..(chunkCount - 1) : relAt(m, j, claimIdx) = "Entailment"

verifiedCount(m, chunkCount, claims) ==
    Cardinality({i \in 0..(Len(claims) - 1) : entailedBySomeChunk(m, chunkCount, i)})

claimSummaryOf(q) ==
    LET chunkCount == Len(q.retrieved_context)
        gtVerified == verifiedCount(q.retrieved2answer, chunkCount, q.gt_answer_claims)
        respBacked == verifiedCount(q.retrieved2response, chunkCount, q.response_claims)
    IN  [gt_total |-> Len(q.gt_answer_claims), gt_verified |-> gtVerified,
         gt_missing |-> Max(0, Len(q.gt_answer_claims) - gtVerified),
         resp_total |-> Len(q.response_claims), resp_backed |-> respBacked,
         resp_unbacked |-> Max(0, Len(q.response_claims) - respBacked)]

outsideEvidence ==
    <<resolverVars, inspectorVars, metricVars, runVars, appVars, deriveVars, filterVars,
      chatVars, readerVars>>

\* the question shown has a shaped retrieved2answer and a uniform
\* retrieved2response, or the other way round
InitEvidence ==
    /\ \E c \in 0..MaxChunks, k \in 0..MaxClaims :
          \/ \E r2a \in ShapedMatrices(c, k), r2r \in UniformMatrices(c, 1) :
                shown = MakeQuestion(c, k, r2a, Absent, 1, r2r, Absent)
          \/ \E r2a \in UniformMatrices(c, 1), r2r \in ShapedMatrices(c, k) :
                shown = MakeQuestion(c, 1, r2a, Absent, k, r2r, Absent)
    /\ claimEvidence = <<>> /\ claimSummary = Pending
    /\ ResolverIdle /\ InspectorIdle /\ MetricIdle /\ RunIdle /\ AppIdle /\ DeriveIdle
    /\ FilterIdle /\ ChatIdle /\ ReaderIdle

\* the claims summary row of the inspector
SummariseClaims ==
    /\ claimSummary = Pending
    /\ claimSummary' = claimSummaryOf(shown)
    /\ UNCHANGED <<shown, claimEvidence, outsideEvidence>>

\* the claim evidence listed under each chunk of the question
ListEvidence ==
    /\ claimEvidence = <<>> /\ Len(shown.retrieved_context) > 0
    /\ claimEvidence' = [j \in 1..Len(shown.retrieved_context) |->
                             claimSetsForChunk(shown, j - 1)]
    /\ UNCHANGED <<shown, claimSummary, outsideEvidence>>

NextEvidence == SummariseClaims \/ ListEvidence

SpecEvidence == InitEvidence /\ [][NextEvidence]_vars

----------------------------------------------------------------------------
(* Claims about the inspector's summary and evidence *)

IsListed(claim, list) == \E i \in 1..Len(list) : list[i] = claim

\* the claims of a side that the evidence lists among the entailments of a chunk
ListedGt ==
    {i \in 1..Len(shown.gt_answer_claims) :
        \E j \in 1..Len(claimEvidence) :
            IsListed(shown.gt_answer_claims[i], claimEvidence[j].gt.entailments)}

ListedResponse ==
    {i \in 1..Len(shown.response_claims) :
        \E j \in 1..Len(claimEvidence) :
            IsListed(shown.response_claims[i], claimEvidence[j].response.entailments)}

EvidenceShown == claimSummary # Pending /\ Len(claimEvidence) = Len(shown.retrieved_context)

\* C26: the summary and the evidence do not diverge on matrix orientation: a GT
\* claim is counted as verified iff some chunk lists it among its GT entailments,
\* and a response claim is counted as backed iff some chunk lists it among its
\* response entailments, for chunk-major, claim-major and ragged matrices.
C26_SummaryMatchesEvidence ==
    EvidenceShown =>
        /\ claimSummary.gt_verified = Cardinality(ListedGt)
        /\ claimSummary.resp_backed = Cardinality(ListedResponse)
        /\ \A i \in 1..Len(shown.gt_answer_claims) :
              entailedBySomeChunk(shown.retrieved2answer, Len(shown.retrieved_context), i - 1)
                  <=> i \in ListedGt
        /\ \A i \in 1..Len(shown.response_claims) :
              entailedBySomeChunk(shown.retrieved2response, Len(shown.retrieved_context),
                                  i - 1)
                  <=> i \in ListedResponse

----------------------------------------------------------------------------
(* Chunk filter pills of the question inspector *)

Pills == {"relevant", "irrelevant", "harming", "grounded", "unused", "contradicting"}

\* relation strings of the filtered panel's matrices
FilterCells == {"Entailment", "Contradiction", "Neutral"}

\* hidden of a chunk card under the pills
hiddenUnder(filters, flags) ==
    \/ ~filters.relevant /\ flags.relevant
    \/ ~filters.irrelevant /\ flags.irrelevant
    \/ ~filters.harming /\ flags.harming
    \/ ~filters.grounded /\ flags.grounded
    \/ ~filters.unused /\ flags.unused
    \/ ~filters.contradicting /\ flags.contradicting

\* the render of the chunk list: for every chunk, whether its card is left out
hiddenCardsOf(q, filters) ==
    [i \in 1..Len(q.retrieved_context) |-> hiddenUnder(filters, ChunkCard(q, i - 1).flags)]

outsideFilter ==
    <<resolverVars, inspectorVars, metricVars, runVars, appVars, deriveVars, evidenceVars,
      chatVars, readerVars>>

\* the panel shows a question whose chunks relate to one GT claim and to up to
\* MaxClaims response claims in every way
InitFilter ==
    /\ \E c \in 1..MaxChunks, k \in 0..MaxClaims :
          \E r2a \in [1..c -> [1..1 -> FilterCells]], r2r \in [1..c -> [1..k -> FilterCells]] :
             panel = MakeQuestion(c, 1, r2a, Absent, k, r2r, Absent)
    /\ chunkFilters = AllFiltersOn
    /\ hidden = hiddenCardsOf(panel, AllFiltersOn)
    /\ ResolverIdle /\ InspectorIdle /\ MetricIdle /\ RunIdle
    /\ AppIdle /\ DeriveIdle /\ EvidenceIdle /\ ChatIdle /\ ReaderIdle

\* a click on a filter pill
TogglePill ==
    /\ \E pill \in Pills :
          LET toggled == [chunkFilters EXCEPT ![pill] = ~@]
          IN  /\ chunkFilters' = toggled
              /\ hidden' = hiddenCardsOf(panel, toggled)
    /\ UNCHANGED <<panel, outsideFilter>>

NextFilter == TogglePill

SpecFilter == InitFilter /\ [][NextFilter]_vars

----------------------------------------------------------------------------
(* Claims about the chunk filter pills *)

\* C28: after any sequence of pill toggles a chunk card is shown iff the pill of
\* its displayed Input Quality label and the pill of its displayed usage label
\* are both active; pills of other labels never hide it.
C28_FilterByDisplayedLabels ==
    \A i \in 1..Len(hidden) :
        LET card == ChunkCard(panel, i - 1)
        IN  ~hidden[i] <=> (chunkFilters[card.status] /\ chunkFilters[card.us])

----------------------------------------------------------------------------
(* Assistant chat: sessions, streaming requests and their abort controllers *)

\* updateCurrentSession as closed over by a handler created while session id was
\* current: the update goes to that session whatever session is shown later
SetStreaming(all, id, flag) == [all EXCEPT ![id].isStreaming = flag]

\* pushAssistant of a notice into the session
PushNotice(all, id) == [all EXCEPT ![id].notices = @ + 1]

\* the finally block of startStream for a request started in session id
Finally(all, id) == SetStreaming(all, id, FALSE)

outsideChat ==
    <<resolverVars, inspectorVars, metricVars, runVars, appVars, deriveVars, evidenceVars,
      filterVars, readerVars>>

InitChat ==
    /\ ChatIdle
    /\ ResolverIdle /\ InspectorIdle /\ MetricIdle /\ RunIdle
    /\ AppIdle /\ DeriveIdle /\ EvidenceIdle /\ FilterIdle /\ ReaderIdle

\* handleSend with a draft and a loaded run: startStream runs up to its first
\* await, registering a new controller for the current session
Send ==
    /\ Len(requests) < MaxRequests
    /\ requests' = Append(requests, [session |-> currentSessionId, status |-> "running"])
    /\ controllers' = [controllers EXCEPT ![currentSessionId] = Len(requests) + 1]
    /\ sessions' = SetStreaming(sessions, currentSessionId, TRUE)
    /\ UNCHANGED <<currentSessionId, outsideChat>>

\* the stream of a request ends (reader done or [DONE]): the finally block runs
StreamCompletes ==
    /\ \E r \in 1..Len(requests) :
          /\ requests[r].status = "running"
          /\ requests' = [requests EXCEPT ![r].status = "settled"]
          /\ sessions' = Finally(sessions, requests[r].session)
          /\ controllers' = [controllers EXCEPT ![requests[r].session] = 0]
    /\ UNCHANGED <<currentSessionId, outsideChat>>

\* the fetch or a read of a request rejects, by itself or after an abort: the
\* catch block pushes a notice, then the finally block runs
StreamFails ==
    /\ \E r \in 1..Len(requests) :
          /\ requests[r].status \in {"running", "aborted"}
          /\ requests' = [requests EXCEPT ![r].status = "settled"]
          /\ sessions' = Finally(PushNotice(sessions, requests[r].session),
                                  requests[r].session)
          /\ controllers' = [controllers EXCEPT ![requests[r].session] = 0]
    /\ UNCHANGED <<currentSessionId, outsideChat>>

\* handleStop, offered while the current session is marked as streaming
Stop ==
    /\ sessions[currentSessionId].isStreaming
    /\ LET ctrl == controllers[currentSessionId]
       IN  /\ requests' = IF ctrl # 0 THEN [requests EXCEPT ![ctrl].status = "aborted"]
                           ELSE requests
           /\ controllers' = [controllers EXCEPT ![currentSessionId] = 0]
    /\ sessions' = SetStreaming(sessions, currentSessionId, FALSE)
    /\ UNCHANGED <<currentSessionId, outsideChat>>

\* the session dropdown
SwitchSession ==
    /\ \E id \in 1..Len(sessions) :
          /\ id # currentSessionId
          /\ currentSessionId' = id
    /\ UNCHANGED <<sessions, controllers, requests, outsideChat>>

\* the New button
NewSession ==
    /\ Len(sessions) < MaxSessions
    /\ sessions' = Append(sessions, [isStreaming |-> FALSE, notices |-> 0])
    /\ currentSessionId' = Len(sessions) + 1
    /\ UNCHANGED <<controllers, requests, outsideChat>>

NextChat ==
    Send \/ StreamCompletes \/ StreamFails \/ Stop \/ SwitchSession \/ NewSession

SpecChat == InitChat /\ [][NextChat]_vars

----------------------------------------------------------------------------
(* Claims about the assistant chat *)

\* the requests of a session that are in flight
InFlight(id) ==
    {r \in 1..Len(requests) : requests[r].session = id /\ requests[r].status = "running"}

\* C29: for every chat session, under any interleaving of sends, completions,
\* errors, Stop clicks and session switches, isStreaming is true exactly while
\* the session has a request in flight, and a session with a request in flight
\* has an abort controller registered, so that Stop can abort it.
C29_StreamingFlag ==
    \A id \in 1..Len(sessions) :
        /\ sessions[id].isStreaming <=> InFlight(id) # {}
        /\ InFlight(id) # {} => controllers[id] \in InFlight(id)

----------------------------------------------------------------------------
(* Assistant chat: the event-stream reader of startStream *)

\* events the server sends in one response
MaxEvents == 3

\* The response body is a sequence of tokens: the line break, and whole lines.
\* A line is ":" (a comment line, which does not start with data:), or stands
\* for the line "data: " followed by the token, whose payload is the token.
LineBreak == "\n"
DoneMark == "[DONE]"
CommentLine == ":"

\* the events of the modelled responses, each a sequence of lines
EventKinds ==
    {<<"a">>, <<"b">>, <<DoneMark>>, <<CommentLine>>, <<"a", "b">>, <<DoneMark, "b">>}

RECURSIVE JoinLines(_)
\* the lines of an event joined by line breaks
JoinLines(lines) ==
    IF Len(lines) <= 1 THEN lines
    ELSE <<Head(lines), LineBreak>> \o JoinLines(Tail(lines))

RECURSIVE WireOf(_)
\* the response body of a sequence of events: each event ends with a blank line
WireOf(events) ==
    IF events = <<>> THEN <<>>
    ELSE JoinLines(Head(events)) \o <<LineBreak, LineBreak>> \o WireOf(Tail(events))

\* buffer.indexOf('\n\n'), 0 standing for -1
indexOfBlankLine(buf) ==
    LET hits == {i \in 1..(Len(buf) - 1) : buf[i] = LineBreak /\ buf[i + 1] = LineBreak}
    IN  IF hits = {} THEN 0 ELSE CHOOSE i \in hits : \A j \in hits : i <= j

RECURSIVE splitLines(_)
\* eventChunk.split('\n')
splitLines(eventChunk) ==
    LET breaks == {i \in 1..Len(eventChunk) : eventChunk[i] = LineBreak}
    IN  IF breaks = {} THEN <<eventChunk>>
        ELSE LET i == CHOOSE b \in breaks : \A c \in breaks : b <= c
             IN  <<SubSeq(eventChunk, 1, i - 1)>>
                   \o splitLines(SubSeq(eventChunk, i + 1, Len(eventChunk)))

\* trimmed.slice(5).trim() of a line, "" for a line the loop skips (empty, or
\* not starting with data:)
dataOfLine(line) ==
    IF line = <<>> \/ line[1] = CommentLine THEN "" ELSE line[1]

RECURSIVE forLines(_, _, _)
\* the for loop over the lines of one event: [DONE] sets done and breaks out of
\* this loop; any other payload is appended (JSON.parse fails on it, so the
\* delta text is the payload itself)
forLines(lines, i, acc) ==
    IF i > Len(lines) THEN [done |-> FALSE, accumulated |-> acc]
    ELSE LET data == dataOfLine(lines[i])
         IN  IF data = "" THEN forLines(lines, i + 1, acc)
             ELSE IF data = DoneMark THEN [done |-> TRUE, accumulated |-> acc]
             ELSE forLines(lines, i + 1, Append(acc, data))

RECURSIVE whileEvents(_, _, _)
\* the inner while loop: takes every complete event out of the buffer; its
\* condition looks at the buffer only
whileEvents(buf, dn, acc) ==
    LET idx == indexOfBlankLine(buf)
    IN  IF idx = 0 THEN [buffer |-> buf, done |-> dn, accumulated |-> acc]
        ELSE LET r == forLines(splitLines(SubSeq(buf, 1, idx - 1)), 1, acc)
             IN  whileEvents(SubSeq(buf, idx + 2, Len(buf)), dn \/ r.done, r.accumulated)

outsideReader ==
    <<resolverVars, inspectorVars, metricVars, runVars, appVars, deriveVars, evidenceVars,
      filterVars, chatVars>>

\* the state before the outer while loop, for each modelled response
InitReader ==
    /\ \E n \in 0..MaxEvents : \E events \in [1..n -> EventKinds] : stream = WireOf(events)
    /\ readCount = 0 /\ buffer = <<>> /\ done = FALSE /\ reading = TRUE
    /\ accumulated = <<>>
    /\ ResolverIdle /\ InspectorIdle /\ MetricIdle /\ RunIdle
    /\ AppIdle /\ DeriveIdle /\ EvidenceIdle /\ FilterIdle /\ ChatIdle

\* one turn of the outer loop: reader.read() delivers the next network chunk,
\* of any length, which is added to the buffer and processed
ReadChunk ==
    /\ reading /\ readCount < Len(stream)
    /\ \E n \in 1..(Len(stream) - readCount) :
          LET chunkText == SubSeq(stream, readCount + 1, readCount + n)
              r == whileEvents(buffer \o chunkText, done, accumulated)
          IN  /\ readCount' = readCount + n
              /\ buffer' = r.buffer
              /\ done' = r.done
              /\ accumulated' = r.accumulated
              /\ reading' = ~r.done
    /\ UNCHANGED <<stream, outsideReader>>

\* reader.read() reports the end of the body: the loop is left
ReaderDone ==
    /\ reading /\ readCount = Len(stream)
    /\ reading' = FALSE
    /\ UNCHANGED <<stream, readCount, buffer, done, accumulated, outsideReader>>

NextReader == ReadChunk \/ ReaderDone

SpecReader == InitReader /\ [][NextReader]_vars

----------------------------------------------------------------------------
(* Claims about the event-stream reader *)

\* the part of the body read so far
Received == SubSeq(stream, 1, readCount)

\* the payloads of the data lines of the events fully received, in order
ReceivedPayloads ==
    LET ends == {i \in 1..(Len(Received) - 1) :
                    Received[i] = LineBreak /\ Received[i + 1] = LineBreak}
        last == IF ends = {} THEN 0 ELSE CHOOSE i \in ends : \A j \in ends : j <= i
        IsPayload(t) == t \notin {LineBreak, CommentLine}
    IN  SelectSeq(SubSeq(Received, 1, last), IsPayload)

\* the payloads before the first [DONE]
BeforeDone(payloads) ==
    LET marks == {i \in 1..Len(payloads) : payloads[i] = DoneMark}
    IN  IF marks = {} THEN payloads
        ELSE SubSeq(payloads, 1, (CHOOSE i \in marks : \A j \in marks : i <= j) - 1)

\* C30: the streamed assistant message is the in-order concatenation of the
\* content of the data events received before the first [DONE] event; nothing
\* from a later line or event is appended, even when it was buffered in the
\* same network chunk.
C30_StopsAtDone == accumulated = BeforeDone(ReceivedPayloads)

====
